---- MODULE Spec2Model ----
(***************************************************************************)
(* A model of the DeFi agent harness: the tool interceptor pipeline        *)
(* (policy, spend limit, slippage guard, cooldown, audit), the wallet       *)
(* signing tools with the transaction simulator, and the provenance         *)
(* writers of the telemetry harness.                                        *)
(*                                                                          *)
(* Units.  USD amounts are whole dollars.  Monotonic time is counted in     *)
(* seconds, the UTC calendar date in days.  Slippage is counted in tenths   *)
(* of a percent.  A raw token amount string "m * 10^e" is the record        *)
(* [ok |-> TRUE, mant |-> m, exp |-> e]; a string that does not parse as a  *)
(* number has ok = FALSE.                                                   *)
(***************************************************************************)
EXTENDS Integers, Sequences, FiniteSets, TLC

\* ------------------------------------------------------------------ bounds

\* Dispatches that may be in flight at once.
MaxInFlight == 2
\* Dispatches started in one behaviour.
MaxDispatches == 2
\* Last second of the monotonic clock.
MaxTime == 3
\* Last UTC day of the calendar.
MaxDay == 1
\* RiskConfig.cooldown_seconds of the modelled configuration.
CooldownSecs == 2
\* RiskConfig.max_trade_usd of the modelled configuration.
MaxPerTrade == 2
\* RiskConfig.max_daily_usd of the modelled configuration.
MaxDaily == 3
\* query_with_routing calls made on the gateway in one behaviour.
MaxQueries == 2
\* execute_swap calls made on the paper portfolio in one behaviour.
MaxSwaps == 2
\* The largest value of the unsigned integer type of token amounts.
MaxAmount == 3
\* poll_event_loop calls the drive loop makes in one behaviour.
MaxPolls == 2
\* Requests for the bridge lock other tasks make in one behaviour.
MaxBridgeUses == 2
\* Calls made to the signing tools and the simulator in one behaviour.
MaxWalletCalls == 2
\* add_event calls made on the fan-out writer in one behaviour.
MaxEvents == 2
\* Events in the list a telemetry snapshot is made from.
MaxSnapEvents == 3
\* Snapshots made from one event list.
MaxSnapshots == 2

\* ------------------------------------------------------- program constants

TOOL_ODOS_SWAP == "defi/odos_swap"
TOOL_PAPER_TRADING == "defi/paper_trading"
TOOL_WALLET_SIGN_TX == "defi/wallet_sign_tx"
TOOL_WALLET_SIGN_MESSAGE == "defi/wallet_sign_message"
\* The literal the slippage and cooldown guards compare the tool name with.
LegacyOdosName == "odos_swap"
\* slippage_percent when the argument is absent: 0.5 %.
DefaultSlippageTenths == 5
\* RiskConfig::default().max_slippage_percent: 1.0 %.
MaxSlippageTenths == 10
\* Length in bytes of a transaction hash.
HashLen == 32
\* BasicGraphGateway::new: default_cache_ttl, 60 s, counted in units of 30 s.
DefaultCacheTtl == 2

\* config/rpc.rs chains
ETHEREUM == 1
ARBITRUM == 42161
OPTIMISM == 10
BASE == 8453
POLYGON == 137

\* ------------------------------------------------------------------ options

\* Option<T>: None carries a placeholder of T's type.
None == [some |-> FALSE, v |-> 0]
Some(x) == [some |-> TRUE, v |-> x]
NoneStr == [some |-> FALSE, v |-> ""]

\* A raw amount string: m * 10^e, or a string that is not a number.
NotANumber == [ok |-> FALSE, mant |-> 0, exp |-> 0]
Amount(m, e) == [ok |-> TRUE, mant |-> m, exp |-> e]
NoneAmt == [some |-> FALSE, v |-> NotANumber]

RECURSIVE Pow10(_)
Pow10(n) == IF n <= 0 THEN 1 ELSE 10 * Pow10(n - 1)

\* ----------------------------------------------------------- token registry

\* The strings an agent may pass as input_token: four registry addresses, a
\* well-formed address the registry does not hold, and a malformed address.
KnownTokens == {"USDC_ETH", "DAI_ETH", "WETH_ETH", "WBTC_ETH"}
TokenStrings == KnownTokens \cup {"0x1234", "not_an_address"}

AddressFromStr(s) == IF s = "not_an_address" THEN NoneStr ELSE Some(s)

stablecoin(symbol, decimals) ==
    [symbol |-> symbol, decimals |-> decimals, is_stablecoin |-> TRUE, approx_price_usd |-> Some(1)]

token(symbol, decimals, approx_price) ==
    [symbol |-> symbol, decimals |-> decimals, is_stablecoin |-> FALSE, approx_price_usd |-> approx_price]

Registry ==
    [a \in KnownTokens |->
        CASE a = "USDC_ETH" -> stablecoin("USDC", 6)
          [] a = "DAI_ETH"  -> stablecoin("DAI", 18)
          [] a = "WETH_ETH" -> token("WETH", 18, Some(3500))
          [] a = "WBTC_ETH" -> token("WBTC", 8, Some(95000))]

\* ------------------------------------------------------- tool call context

\* ToolCallContext: the tool name and the JSON args the guards read.
\* slippage_percent is in tenths of a percent.
Ctx(tool, action, amount_usd, input_token, amount, slippage) ==
    [tool_name |-> tool,
     args |-> [action |-> action, amount_usd |-> amount_usd, input_token |-> input_token,
               amount |-> amount, slippage_percent |-> slippage]]

NoCtx == Ctx("", "", None, NoneStr, NoneAmt, None)

\* amount / 10^decimals, for the raw amounts the model draws (whole tokens).
TokenAmount(amount, decimals) ==
    IF amount.exp >= decimals
    THEN amount.mant * Pow10(amount.exp - decimals)
    ELSE amount.mant \div Pow10(decimals - amount.exp)

\* SpendLimitInterceptor::estimate_trade_value
estimate_trade_value(args) ==
    IF args.amount_usd.some THEN Some(args.amount_usd.v)
    ELSE IF ~args.amount.some THEN None
    ELSE IF ~args.input_token.some THEN None
    ELSE IF ~AddressFromStr(args.input_token.v).some THEN None
    ELSE IF args.input_token.v \notin DOMAIN Registry THEN None
    ELSE LET info == Registry[args.input_token.v]
             amt == args.amount.v
         IN  IF ~amt.ok THEN None
             ELSE IF info.is_stablecoin THEN Some(TokenAmount(amt, info.decimals))
             ELSE IF info.approx_price_usd.some
                  THEN Some(TokenAmount(amt, info.decimals) * info.approx_price_usd.v)
             ELSE None

\* ------------------------------------------------------------------ decisions

Allow(g) == [guard |-> g, allow |-> TRUE, why |-> "", value |-> 0, limit |-> 0, current |-> 0]
Block(g, why, value, limit, current) ==
    [guard |-> g, allow |-> FALSE, why |-> why, value |-> value, limit |-> limit, current |-> current]

\* --------------------------------------------------------------------- policy

PolicyDecision(allowed, rule_id, reason) == [allowed |-> allowed, rule_id |-> rule_id, reason |-> reason]

\* PolicyConfig::from_mode
from_mode(mode) == [mode |-> mode, rules |-> <<>>]

\* A lookup that lets the default mode win over a rule under AllowAll.
decision_for_tool_mode_first(policy, tool) ==
    IF policy.mode = "AllowAll"
    THEN PolicyDecision(TRUE, "", "allowed by default policy")
    ELSE IF tool \in DOMAIN policy.rules THEN policy.rules[tool]
    ELSE PolicyDecision(FALSE, "", "denied by default policy")

\* PolicyConfig::decision_for_tool
decision_for_tool(policy, tool) ==
    IF tool \in DOMAIN policy.rules THEN policy.rules[tool]
    ELSE IF policy.mode = "AllowAll"
         THEN PolicyDecision(TRUE, "", "allowed by default policy")
         ELSE PolicyDecision(FALSE, "", "denied by default policy")

\* PolicyInterceptor::intercept_tool_call
PolicyIntercept(policy, ctx) ==
    LET decision == decision_for_tool(policy, ctx.tool_name)
    IN  IF decision.allowed THEN Allow("Policy")
        ELSE Block("Policy", decision.reason, 0, 0, 0)

\* ---------------------------------------------------------------- tool names

\* The characters of the tool name strings a policy.json carries in the model.
NameChars ==
    ("defi/odos_swap" :> <<"d", "e", "f", "i", "/", "o", "d", "o", "s", "_", "s", "w", "a", "p">>) @@
    ("defi/paper_trading" :> <<"d", "e", "f", "i", "/", "p", "a", "p", "e", "r", "_",
                               "t", "r", "a", "d", "i", "n", "g">>) @@
    ("paper_trading" :> <<"p", "a", "p", "e", "r", "_", "t", "r", "a", "d", "i", "n", "g">>) @@
    (" paper_trading" :> <<" ", "p", "a", "p", "e", "r", "_", "t", "r", "a", "d", "i", "n", "g">>) @@
    ("odos-swap" :> <<"o", "d", "o", "s", "-", "s", "w", "a", "p">>) @@
    ("Odos" :> <<"O", "d", "o", "s">>) @@
    ("odos_swap" :> <<"o", "d", "o", "s", "_", "s", "w", "a", "p">>) @@
    ("defi/" :> <<"d", "e", "f", "i", "/">>) @@
    ("" :> <<>>)

\* The bytes both validators accept inside a name: a-z, 0-9 and _.
NameBytes ==
    {"a", "b", "c", "d", "e", "f", "g", "h", "i", "j", "k", "l", "m", "n", "o", "p", "q", "r",
     "s", "t", "u", "v", "w", "x", "y", "z", "0", "1", "2", "3", "4", "5", "6", "7", "8", "9", "_"}

\* RuntimeToolName::parse(name).is_ok(): bundle/local, both parts non-empty and
\* drawn from [a-z0-9_].
RuntimeToolName_parse(name) ==
    LET cs == NameChars[name]
        slashes == {i \in DOMAIN cs : cs[i] = "/"}
    IN  /\ Cardinality(slashes) = 1
        /\ \A k \in slashes : 1 < k /\ k < Len(cs)
        /\ \A i \in DOMAIN cs \ slashes : cs[i] \in NameBytes

\* policy.rs is_valid_tool_name
is_valid_tool_name(name) == RuntimeToolName_parse(name)

\* ---------------------------------------------------------------- policy file

\* A rule of policy.json; reason is optional.
PolicyRule(tool, allowed, rule_id, reason) ==
    [tool |-> tool, allowed |-> allowed, rule_id |-> rule_id, reason |-> reason]

\* policy.json in the agent directory: absent, present but unreadable, present
\* but not a PolicyFile in JSON, or a PolicyFile.
MissingFile == [exists |-> FALSE, readable |-> FALSE, parses |-> FALSE, mode |-> "", rules |-> <<>>]
UnreadableFile == [exists |-> TRUE, readable |-> FALSE, parses |-> FALSE, mode |-> "", rules |-> <<>>]
MalformedFile == [exists |-> TRUE, readable |-> TRUE, parses |-> FALSE, mode |-> "", rules |-> <<>>]
PolicyFile(mode, rules) ==
    [exists |-> TRUE, readable |-> TRUE, parses |-> TRUE, mode |-> mode, rules |-> rules]

\* The loop of PolicyConfig::load_from_dir over parsed.rules: a rule with an
\* invalid tool name is skipped, a later rule replaces an earlier one.
RECURSIVE insert_rules(_, _)
insert_rules(rules, acc) ==
    IF rules = <<>> THEN acc
    ELSE LET rule == Head(rules)
         IN  insert_rules(Tail(rules),
                 IF ~is_valid_tool_name(rule.tool) THEN acc
                 ELSE (rule.tool :> PolicyDecision(rule.allowed, rule.rule_id,
                          IF rule.reason.some THEN rule.reason.v ELSE "policy rule")) @@ acc)

\* The mode match of PolicyConfig::load_from_dir.
parse_mode(mode, fallback_mode) ==
    IF mode = "default-deny" THEN "DefaultDeny"
    ELSE IF mode = "allow-all" THEN "AllowAll"
    ELSE fallback_mode

\* PolicyConfig::load_from_dir: Ok(config) or Err.
load_from_dir(file, fallback_mode) ==
    IF ~file.exists THEN [ok |-> TRUE, config |-> from_mode(fallback_mode)]
    ELSE IF ~file.readable \/ ~file.parses THEN [ok |-> FALSE, config |-> from_mode(fallback_mode)]
    ELSE [ok |-> TRUE,
          config |-> [mode |-> parse_mode(file.mode, fallback_mode),
                      rules |-> insert_rules(file.rules, <<>>)]]

\* ------------------------------------------------------------- slippage guard

\* SlippageGuardInterceptor::intercept_tool_call
SlippageIntercept(max_slippage, ctx) ==
    IF ctx.tool_name # LegacyOdosName THEN Allow("SlippageGuard")
    ELSE LET slippage == IF ctx.args.slippage_percent.some
                         THEN ctx.args.slippage_percent.v ELSE DefaultSlippageTenths
         IN  IF slippage > max_slippage
             THEN Block("SlippageGuard", "slippage", slippage, max_slippage, 0)
             ELSE Allow("SlippageGuard")

\* ---------------------------------------------------------------- spend limit

\* DailySpending::new
NewDailySpending(date) == [total |-> 0, date |-> date, trades |-> <<>>]

\* A reset that zeroes the total and keeps the trades of the day before.
ResetTotalOnly(daily, date) ==
    IF date # daily.date THEN [daily EXCEPT !.total = 0, !.date = date] ELSE daily

\* The reset DailySpending::add and ::current_total both begin with.
ResetIfNewDay(daily, date) ==
    IF date # daily.date THEN [total |-> 0, date |-> date, trades |-> <<>>] ELSE daily

\* An add that skips the new-day reset and adds to the total of the day before.
DailyAddWithoutReset(daily, date, amount) ==
    [daily EXCEPT !.total = daily.total + amount, !.trades = Append(daily.trades, amount)]

\* DailySpending::add
DailyAdd(daily, date, amount) ==
    LET r == ResetIfNewDay(daily, date)
    IN  [r EXCEPT !.total = r.total + amount, !.trades = Append(r.trades, amount)]

\* Whether the spend limit guard looks at the call at all (the two early returns).
SpendLimitApplies(ctx) ==
    ctx.tool_name = TOOL_ODOS_SWAP /\ ctx.args.action = "prepare_swap"

\* A per-trade comparison that also rejects a trade equal to the limit.
ExceedsPerTradeOrEqual(trade_value, max_per_trade) == trade_value >= max_per_trade

\* The per-trade comparison of SpendLimitInterceptor::intercept_tool_call.
ExceedsPerTrade(trade_value, max_per_trade) == trade_value > max_per_trade

\* The daily comparison of SpendLimitInterceptor::intercept_tool_call.
ExceedsDaily(current_daily, trade_value, max_daily) == current_daily + trade_value > max_daily

\* A mode test that lets every unestimated trade through.
AlwaysAllowsUnknownValue(mode) == TRUE

\* Whether a trade whose value cannot be estimated is let through.
AllowsUnknownValue(mode) == mode = "FailOpen"

\* The decision of SpendLimitInterceptor::intercept_tool_call, given the
\* daily spending as current_total() leaves it.
SpendLimitDecision(mode, max_per_trade, max_daily, current_daily, ctx) ==
    IF ~SpendLimitApplies(ctx) THEN Allow("SpendLimit")
    ELSE LET est == estimate_trade_value(ctx.args)
         IN  IF ~est.some
             THEN IF AllowsUnknownValue(mode) THEN Allow("SpendLimit")
                  ELSE Block("SpendLimit", "no_estimate", 0, 0, 0)
             ELSE IF ExceedsPerTrade(est.v, max_per_trade)
                  THEN Block("SpendLimit", "per_trade", est.v, max_per_trade, 0)
             ELSE IF ExceedsDaily(current_daily, est.v, max_daily)
                  THEN Block("SpendLimit", "daily", est.v, max_daily, current_daily)
             ELSE Allow("SpendLimit")

\* Whether intercept_tool_call reaches the daily check, where it takes the
\* write lock and calls current_total().
ReachesDailyCheck(max_per_trade, ctx) ==
    /\ SpendLimitApplies(ctx)
    /\ estimate_trade_value(ctx.args).some
    /\ ~ExceedsPerTrade(estimate_trade_value(ctx.args).v, max_per_trade)

\* A request hook that records the trade value as soon as it allows the trade.
DailyReservedAtRequest(daily, date, max_per_trade, max_daily, ctx) ==
    IF ~ReachesDailyCheck(max_per_trade, ctx) THEN daily
    ELSE LET seen == ResetIfNewDay(daily, date)
             trade_value == estimate_trade_value(ctx.args).v
         IN  IF ExceedsDaily(seen.total, trade_value, max_daily) THEN seen
             ELSE DailyAdd(seen, date, trade_value)

\* The daily spending as SpendLimitInterceptor::intercept_tool_call leaves it:
\* touched only by current_total(), and only when the daily check is reached.
DailyAfterRequest(daily, date, max_per_trade, max_daily, ctx) ==
    IF ReachesDailyCheck(max_per_trade, ctx) THEN ResetIfNewDay(daily, date) ELSE daily

\* -------------------------------------------------------------------- cooldown

\* A cooldown guard that looks at every action of the swap tool.
CooldownAppliesAnyAction(ctx) == ctx.tool_name = LegacyOdosName

\* Whether the cooldown guard looks at the call at all (the two early returns).
CooldownApplies(ctx) ==
    ctx.tool_name = LegacyOdosName /\ ctx.args.action = "prepare_swap"

\* A completion hook that forgets the last trade when the call failed.
CooldownCompleteClearsOnErr(last, ctx, result, instant) ==
    IF ~CooldownApplies(ctx) THEN last
    ELSE IF result = "ok" THEN Some(instant) ELSE None

\* A completion hook that stamps every prepare_swap, failed ones included.
CooldownCompleteAnyResult(last, ctx, result, instant) ==
    IF CooldownApplies(ctx) THEN Some(instant) ELSE last

\* CooldownInterceptor::on_tool_call_complete: the stored instant after the
\* hook. The write lock is taken first and Instant::now() is read under it.
CooldownComplete(last, ctx, result, instant) ==
    IF CooldownApplies(ctx) /\ result = "ok" THEN Some(instant) ELSE last

\* CooldownInterceptor::intercept_tool_call
CooldownIntercept(cooldown_duration, last_trade, instant, ctx) ==
    IF ~CooldownApplies(ctx) THEN Allow("Cooldown")
    ELSE IF last_trade.some /\ instant - last_trade.v < cooldown_duration
         THEN Block("Cooldown", "cooldown", cooldown_duration - (instant - last_trade.v),
                    cooldown_duration, 0)
         ELSE Allow("Cooldown")

\* ------------------------------------------------------------------- state

VARIABLES
    agent_dir,   \* the agent directory: its policy.json
    runner,      \* AgentRunner: its config and the outcome of build_runtime
    pipeline,    \* the tool interceptors installed in the runtime, in order
    policy,      \* PolicyInterceptor.policy
    mode,        \* SpendLimitInterceptor.mode
    daily,       \* SpendLimitInterceptor.daily_spent
    last_trade,  \* CooldownInterceptor.last_trade
    audit_log,   \* the lines of the audit log file
    now,         \* the monotonic clock (Instant::now)
    today,       \* the UTC calendar date (Utc::now().date_naive())
    calls,       \* the dispatches: context, position in the pipeline, hooks run
    started,     \* dispatches started so far
    last_ok      \* instant at which the latest successful prepare_swap of the
                 \* registered DEX swap tool reached the cooldown guard's completion hook

pipeVars == <<agent_dir, runner, pipeline, policy, mode, daily, last_trade, audit_log, now, today, calls, started, last_ok>>

VARIABLES
    wallet,        \* the SecureWallet handed to the signing tools
    sim_log,       \* the simulations performed: transaction and result
    sign_log,      \* the signing tool calls made: tool, input and result
    wallet_calls   \* calls made to the signing tools and the simulator so far

walletVars == <<wallet, sim_log, sign_log, wallet_calls>>

VARIABLES
    mem_store,    \* the events held by the InMemoryProvenanceStore
    jsonl,        \* the JSONL file: the chunks written to it, in order
    jsonl_lock,   \* the add_event call holding JsonlProvenanceWriter.file, or 0
    adds,         \* the add_event calls on the fan-out writer
    added         \* add_event calls started so far

provVars == <<mem_store, jsonl, jsonl_lock, adds, added>>

VARIABLES
    harness_policy,  \* the PolicyConfig the telemetry harness loaded, if it has
    snap_events,     \* the events write_snapshot is called with
    snapshot_file,   \* the file at the snapshot path
    snapshots        \* the results of the write_snapshot calls so far

snapVars == <<snap_events, snapshot_file, snapshots>>
harnessVars == <<harness_policy, snapVars>>

VARIABLES
    gw_hasher,       \* the cache key DefaultHasher gives each query
    gw_cache,        \* BasicGraphGateway.cache
    gw_call,         \* the query_with_routing call waiting for its response
    gw_stores,       \* history: the entries successful queries have stored
    gw_result,       \* the last result query_with_routing returned
    gw_now,          \* Instant::now() of the gateway
    gw_cleaners,     \* spawned clean_expired_cache tasks that have not run
    gw_calls         \* query_with_routing calls made so far

gatewayVars == <<gw_hasher, gw_cache, gw_call, gw_stores, gw_result, gw_now, gw_cleaners, gw_calls>>

VARIABLES
    paper_holdings,  \* PaperPortfolio.holdings
    paper_trades,    \* PaperPortfolio.trades
    paper_result,    \* the last execute_swap call and what it returned
    paper_calls,     \* execute_swap calls made so far
    paper_lock,      \* the holder of the RwLock around the portfolio
    swaps,           \* the PaperTradingState::execute_swap calls in flight
    paper_start,     \* history: the holdings of the portfolio when it was made
    paper_order      \* history: the swaps in the order they took the lock

paperVars == <<paper_holdings, paper_trades, paper_result, paper_calls,
               paper_lock, swaps, paper_start, paper_order>>

VARIABLES
    rpc_env,         \* the environment variables RpcConfig::from_env reads
    rpc_config       \* the RpcConfig from_env returned, if it has run

rpcVars == <<rpc_env, rpc_config>>

VARIABLES
    bridge_lock,     \* the holder of the Mutex around the QuickJS bridge
    loop_pc,         \* where start_trading_loop is
    loop_dry_run,    \* AgentRunner.dry_run
    polls,           \* poll_event_loop calls made so far, counted up to MaxPolls
    tasks,           \* where each other task that uses the bridge is
    bridge_uses      \* lock requests other tasks have made so far

loopVars == <<bridge_lock, loop_pc, loop_dry_run, polls, tasks, bridge_uses>>

toolVars == <<gatewayVars, paperVars, rpcVars, loopVars>>

\* An installation order that puts the audit log in front of the guards.
GuardsAuditFirst == <<"Audit", "Policy", "SpendLimit", "SlippageGuard", "Cooldown">>

\* The interceptors in the order AgentRunner::build_runtime installs them.
Guards == <<"Policy", "SpendLimit", "SlippageGuard", "Cooldown", "Audit">>

Slots == 1..MaxInFlight

IdleCall == [ctx |-> NoCtx, stage |-> "idle", idx |-> 0, decs |-> <<>>, comps |-> <<>>,
             result |-> "none"]

\* A dispatch entering the pipeline: the first guard's request hook is next.
NewCall(ctx) == [IdleCall EXCEPT !.ctx = ctx, !.stage = "request", !.idx = 1]

\* A dispatcher that hands a blocked call on to the next guard.
DecidedIgnoringBlock(call, dec) ==
    LET c == [call EXCEPT !.decs = Append(call.decs, dec)]
    IN  IF call.idx = Len(pipeline) THEN [c EXCEPT !.stage = "body", !.idx = 0]
        ELSE [c EXCEPT !.idx = call.idx + 1]

\* The dispatch after a guard's request hook returned dec: a Block ends it, an
\* Allow passes it to the next guard, and after the last guard to the tool body.
Decided(call, dec) ==
    LET c == [call EXCEPT !.decs = Append(call.decs, dec)]
    IN  IF ~dec.allow THEN [c EXCEPT !.stage = "blocked"]
        ELSE IF call.idx = Len(pipeline) THEN [c EXCEPT !.stage = "body", !.idx = 0]
        ELSE [c EXCEPT !.idx = call.idx + 1]

\* The dispatch after the tool body returned: the completion hooks run next.
BodyReturned(call, result) == [call EXCEPT !.stage = "complete", !.idx = 1, !.result = result]

\* The dispatch after guard g's completion hook ran.
Completed(call, g) ==
    LET c == [call EXCEPT !.comps = Append(call.comps, g)]
    IN  IF call.idx = Len(pipeline) THEN [c EXCEPT !.stage = "done", !.idx = 0]
        ELSE [c EXCEPT !.idx = call.idx + 1]

AtRequest(d, g) == calls[d].stage = "request" /\ pipeline[calls[d].idx] = g
AtComplete(d, g) == calls[d].stage = "complete" /\ pipeline[calls[d].idx] = g

\* --------------------------------------------------------------------- runner

\* The settings of Config that build_runtime reads.
RunnerConfig(require_file, default_mode, audit_log_path) ==
    [policy |-> [require_file |-> require_file, default_mode |-> default_mode],
     audit_log_path |-> audit_log_path]

\* Config::default(): no policy file required, audit log at audit.jsonl.
DefaultConfig == RunnerConfig(FALSE, "DefaultDeny", Some("audit.jsonl"))

NewRunner(config) == [config |-> config, status |-> "new", error |-> ""]
BuiltRunner(config) == [config |-> config, status |-> "built", error |-> ""]

\* An installation that puts the audit log in front of the guards.
InstalledGuardsAuditFirst(audit_log_path) ==
    IF audit_log_path.some THEN <<"Audit">> \o SelectSeq(Guards, LAMBDA g : g # "Audit")
    ELSE SelectSeq(Guards, LAMBDA g : g # "Audit")

\* The interceptors build_runtime installs: the audit log only with a path.
InstalledGuards(audit_log_path) ==
    SelectSeq(Guards, LAMBDA g : g # "Audit" \/ audit_log_path.some)

\* A policy selection that falls back even when the file is required.
build_policy_never_requires(config, file) ==
    IF ~file.exists
    THEN [ok |-> TRUE, policy |-> from_mode(config.policy.default_mode)]
    ELSE LET loaded == load_from_dir(file, config.policy.default_mode)
         IN  [ok |-> TRUE,
              policy |-> IF loaded.ok THEN loaded.config
                         ELSE from_mode(config.policy.default_mode)]

\* The policy build_runtime installs, or the configuration error it returns.
build_policy(config, file) ==
    IF ~file.exists
    THEN IF config.policy.require_file
         THEN [ok |-> FALSE, policy |-> from_mode(config.policy.default_mode)]
         ELSE [ok |-> TRUE, policy |-> from_mode(config.policy.default_mode)]
    ELSE LET loaded == load_from_dir(file, config.policy.default_mode)
         IN  [ok |-> TRUE,
              policy |-> IF loaded.ok THEN loaded.config
                         ELSE from_mode(config.policy.default_mode)]

\* AgentRunner::build_runtime
BuildRuntime ==
    /\ runner.status = "new"
    /\ LET built == build_policy(runner.config, agent_dir.policy_json)
       IN  IF built.ok
           THEN /\ policy' = built.policy
                /\ pipeline' = InstalledGuards(runner.config.audit_log_path)
                /\ runner' = [runner EXCEPT !.status = "built"]
           ELSE /\ runner' = [runner EXCEPT !.status = "failed", !.error = "Config"]
                /\ UNCHANGED <<policy, pipeline>>
    /\ UNCHANGED <<agent_dir, mode, daily, last_trade, audit_log, now, today, calls, started, last_ok,
                   walletVars, provVars, harnessVars, toolVars>>

\* ----------------------------------------------------------------- dispatcher

\* The runtime dispatches a tool call into the pipeline.
StartDispatch(d, ctx) ==
    /\ runner.status = "built"
    /\ calls[d].stage \in {"idle", "done", "blocked"}
    /\ started < MaxDispatches
    /\ calls' = [calls EXCEPT ![d] = NewCall(ctx)]
    /\ started' = started + 1
    /\ UNCHANGED <<agent_dir, runner, pipeline, policy, mode, daily, last_trade, audit_log, now, today, last_ok, walletVars, provVars, harnessVars, toolVars>>

\* The tool body runs; outbound I/O decides whether it returns Ok or Err.
ToolBody(d) ==
    /\ calls[d].stage = "body"
    /\ \E result \in {"ok", "err"} : calls' = [calls EXCEPT ![d] = BodyReturned(calls[d], result)]
    /\ UNCHANGED <<agent_dir, runner, pipeline, policy, mode, daily, last_trade, audit_log, now, today, started, last_ok, walletVars, provVars, harnessVars, toolVars>>

\* ------------------------------------------------------------- request hooks

Policy_intercept_tool_call(d) ==
    /\ AtRequest(d, "Policy")
    /\ calls' = [calls EXCEPT ![d] = Decided(calls[d], PolicyIntercept(policy, calls[d].ctx))]
    /\ UNCHANGED <<agent_dir, runner, pipeline, policy, mode, daily, last_trade, audit_log, now, today, started, last_ok, walletVars, provVars, harnessVars, toolVars>>

SpendLimit_intercept_tool_call(d) ==
    /\ AtRequest(d, "SpendLimit")
    /\ LET ctx == calls[d].ctx
           seen == DailyAfterRequest(daily, today, MaxPerTrade, MaxDaily, ctx)
           dec == SpendLimitDecision(mode, MaxPerTrade, MaxDaily, seen.total, ctx)
       IN  /\ daily' = seen
           /\ calls' = [calls EXCEPT ![d] = Decided(calls[d], dec)]
    /\ UNCHANGED <<agent_dir, runner, pipeline, policy, mode, last_trade, audit_log, now, today, started, last_ok, walletVars, provVars, harnessVars, toolVars>>

SlippageGuard_intercept_tool_call(d) ==
    /\ AtRequest(d, "SlippageGuard")
    /\ calls' = [calls EXCEPT ![d] = Decided(calls[d], SlippageIntercept(MaxSlippageTenths, calls[d].ctx))]
    /\ UNCHANGED <<agent_dir, runner, pipeline, policy, mode, daily, last_trade, audit_log, now, today, started, last_ok, walletVars, provVars, harnessVars, toolVars>>

Cooldown_intercept_tool_call(d) ==
    /\ AtRequest(d, "Cooldown")
    /\ calls' = [calls EXCEPT ![d] =
          Decided(calls[d], CooldownIntercept(CooldownSecs, last_trade, now, calls[d].ctx))]
    /\ UNCHANGED <<agent_dir, runner, pipeline, policy, mode, daily, last_trade, audit_log, now, today, started, last_ok, walletVars, provVars, harnessVars, toolVars>>

\* AuditLogWriter::write either appends the line or fails with an I/O error.
AuditWrite(log, entry, written) == IF written THEN Append(log, entry) ELSE log

\* The decision of the audit hook: as AuditDecision, but a failed write
\* blocks the call.
AuditDecisionNeedsWrite(written) ==
    IF written THEN Allow("Audit") ELSE Block("Audit", "audit log write failed", 0, 0, 0)

\* The decision of the audit hook: a failed write is logged as a warning and
\* the hook returns Allow.
AuditDecision(written) == Allow("Audit")

Audit_intercept_tool_call(d) ==
    /\ AtRequest(d, "Audit")
    /\ \E written \in BOOLEAN :
          /\ audit_log' = AuditWrite(audit_log,
                 [entry_type |-> "tool_call_start", tool_name |-> calls[d].ctx.tool_name,
                  status |-> "pending"], written)
          /\ calls' = [calls EXCEPT ![d] = Decided(calls[d], AuditDecision(written))]
    /\ UNCHANGED <<agent_dir, runner, pipeline, policy, mode, daily, last_trade, now, today, started, last_ok, walletVars, provVars, harnessVars, toolVars>>

\* ---------------------------------------------------------- completion hooks

Policy_on_tool_call_complete(d) ==
    /\ AtComplete(d, "Policy")
    /\ calls' = [calls EXCEPT ![d] = Completed(calls[d], "Policy")]
    /\ UNCHANGED <<agent_dir, runner, pipeline, policy, mode, daily, last_trade, audit_log, now, today, started, last_ok, walletVars, provVars, harnessVars, toolVars>>

SpendLimit_on_tool_call_complete(d) ==
    /\ AtComplete(d, "SpendLimit")
    /\ LET ctx == calls[d].ctx
           est == estimate_trade_value(ctx.args)
       IN  daily' = IF SpendLimitApplies(ctx) /\ calls[d].result = "ok" /\ est.some
                    THEN DailyAdd(daily, today, est.v)
                    ELSE daily
    /\ calls' = [calls EXCEPT ![d] = Completed(calls[d], "SpendLimit")]
    /\ UNCHANGED <<agent_dir, runner, pipeline, policy, mode, last_trade, audit_log, now, today, started, last_ok, walletVars, provVars, harnessVars, toolVars>>

SlippageGuard_on_tool_call_complete(d) ==
    /\ AtComplete(d, "SlippageGuard")
    /\ calls' = [calls EXCEPT ![d] = Completed(calls[d], "SlippageGuard")]
    /\ UNCHANGED <<agent_dir, runner, pipeline, policy, mode, daily, last_trade, audit_log, now, today, started, last_ok, walletVars, provVars, harnessVars, toolVars>>

Cooldown_on_tool_call_complete(d) ==
    /\ AtComplete(d, "Cooldown")
    /\ LET ctx == calls[d].ctx
       IN  /\ last_trade' = CooldownComplete(last_trade, ctx, calls[d].result, now)
           /\ last_ok' = IF /\ ctx.tool_name = TOOL_ODOS_SWAP
                            /\ ctx.args.action = "prepare_swap"
                            /\ calls[d].result = "ok"
                         THEN Some(now) ELSE last_ok
    /\ calls' = [calls EXCEPT ![d] = Completed(calls[d], "Cooldown")]
    /\ UNCHANGED <<agent_dir, runner, pipeline, policy, mode, daily, audit_log, now, today, started, walletVars, provVars, harnessVars, toolVars>>

Audit_on_tool_call_complete(d) ==
    /\ AtComplete(d, "Audit")
    /\ \E written \in BOOLEAN :
          audit_log' = AuditWrite(audit_log,
              [entry_type |-> "tool_call_complete", tool_name |-> calls[d].ctx.tool_name,
               status |-> IF calls[d].result = "ok" THEN "success" ELSE "error"], written)
    /\ calls' = [calls EXCEPT ![d] = Completed(calls[d], "Audit")]
    /\ UNCHANGED <<agent_dir, runner, pipeline, policy, mode, daily, last_trade, now, today, started, last_ok, walletVars, provVars, harnessVars, toolVars>>

\* ------------------------------------------------------------------- clocks

\* A second passes on the monotonic clock.
Tick ==
    /\ now < MaxTime
    /\ now' = now + 1
    /\ UNCHANGED <<agent_dir, runner, pipeline, policy, mode, daily, last_trade, audit_log, today, calls, started, last_ok, walletVars, provVars, harnessVars, toolVars>>

\* The UTC date changes.
NewDay ==
    /\ today < MaxDay
    /\ today' = today + 1
    /\ UNCHANGED <<agent_dir, runner, pipeline, policy, mode, daily, last_trade, audit_log, now, calls, started, last_ok, walletVars, provVars, harnessVars, toolVars>>

\* ------------------------------------------------------------------- wallet

\* Byte strings: a length and the content's identity.
Bytes(len, id) == [len |-> len, id |-> id]
NoBytes == Bytes(0, <<>>)

\* A hex string argument: whether hex::decode accepts it (every character a
\* hex digit, an even number of them, after an optional 0x) and the bytes it
\* then yields.
Hex(bytes) == [valid |-> TRUE, bytes |-> bytes]
BadHex == [valid |-> FALSE, bytes |-> NoBytes]
NoneHex == [some |-> FALSE, v |-> BadHex]

\* keccak256
keccak256(bytes) == Bytes(HashLen, <<"keccak256">> \o bytes.id)

\* eip191_hash_message
eip191_hash_message(message) == Bytes(HashLen, <<"eip191", message>>)

\* The transactions of the model: the raw bytes of each.
TxIds == {"tx1", "tx2"}
RawTx(t) == Bytes(4, <<"raw", t>>)
TxHash(t) == keccak256(RawTx(t))

\* SecureWallet::from_hex, for a key that parses.
from_hex == [address |-> "0xf39f", dry_run |-> FALSE]

\* SecureWallet::with_dry_run, as run_agent calls it.
with_dry_run(w, dry_run) == [w EXCEPT !.dry_run = dry_run]

\* SecureWallet::sign_hash
sign_hash(w, hash) == [ok |-> TRUE, signature |-> <<"sig", w.address>> \o hash.id]

ToolOk(hash_source, hash, signature) ==
    [ok |-> TRUE, error |-> "", message |-> "", hash_source |-> hash_source,
     tx_hash |-> hash, signature |-> signature]
ToolErr(error, message) ==
    [ok |-> FALSE, error |-> error, message |-> message, hash_source |-> "",
     tx_hash |-> NoBytes, signature |-> <<>>]

\* decode_hex
decode_hex(input) == [ok |-> input.valid, bytes |-> input.bytes]

\* The hash WalletSignTxTool::execute signs and where it took it from, or the
\* validation error it returns.
SignTxHash(args) ==
    IF args.tx_hash.some
    THEN LET d == decode_hex(args.tx_hash.v)
         IN  IF ~d.ok THEN ToolErr("InvalidArgument", "Invalid hex string")
             ELSE IF d.bytes.len # HashLen THEN ToolErr("InvalidArgument", "tx_hash must be 32 bytes")
             ELSE ToolOk("tx_hash", d.bytes, <<>>)
    ELSE IF args.tx_bytes.some
    THEN LET d == decode_hex(args.tx_bytes.v)
         IN  IF ~d.ok THEN ToolErr("InvalidArgument", "Invalid hex string")
             ELSE ToolOk("tx_bytes", keccak256(d.bytes), <<>>)
    ELSE ToolErr("InvalidArgument", "Missing tx_hash or tx_bytes")

\* WalletSignTxTool::execute
WalletSignTx_execute(w, args) ==
    LET h == SignTxHash(args)
    IN  IF ~h.ok THEN h
        ELSE LET s == sign_hash(w, h.tx_hash)
             IN  IF ~s.ok THEN ToolErr("ToolExecution", "Signing failed")
                 ELSE ToolOk(h.hash_source, h.tx_hash, s.signature)

\* WalletSignMessageTool::execute
WalletSignMessage_execute(w, message) ==
    LET hash == eip191_hash_message(message)
        s == sign_hash(w, hash)
    IN  IF ~s.ok THEN ToolErr("ToolExecution", "Signing failed")
        ELSE ToolOk("message", hash, s.signature)

\* What the preflight of a simulation may meet: an RPC URL that does not
\* parse, an eth_call that returns, one that the node answers with a revert,
\* and one that never reaches the node.
RpcOutcomes == {"invalid url", "ok", "execution reverted", "error sending request"}

\* TransactionSimulator::parse_revert_reason: the reason of a revert, and the
\* whole text of any other error.
parse_revert_reason(error) == error

\* TransactionSimulator::simulate_request: the outcome of the eth_call.
simulate_request(rpc) ==
    IF rpc = "invalid url"
    THEN [ok |-> FALSE, error |-> "InvalidUrl", success |-> FALSE, revert_reason |-> ""]
    ELSE IF rpc = "ok"
    THEN [ok |-> TRUE, error |-> "", success |-> TRUE, revert_reason |-> ""]
    ELSE [ok |-> TRUE, error |-> "", success |-> FALSE, revert_reason |-> parse_revert_reason(rpc)]

\* The arguments the model passes to wallet_sign_tx.
SignTxArgs ==
    [tx_hash : {NoneHex, Some(BadHex), Some(Hex(Bytes(4, <<"short">>)))} \cup
               {Some(Hex(TxHash(t))) : t \in TxIds},
     tx_bytes : {NoneHex, Some(BadHex)} \cup {Some(Hex(RawTx(t))) : t \in TxIds}]

WalletSignTx(args) ==
    /\ wallet_calls < MaxWalletCalls
    /\ wallet_calls' = wallet_calls + 1
    /\ sign_log' = Append(sign_log, [tool |-> TOOL_WALLET_SIGN_TX, args |-> args,
                                     result |-> WalletSignTx_execute(wallet, args)])
    /\ UNCHANGED <<wallet, sim_log, pipeVars, provVars, harnessVars, toolVars>>

WalletSignMessage(message) ==
    /\ wallet_calls < MaxWalletCalls
    /\ wallet_calls' = wallet_calls + 1
    /\ sign_log' = Append(sign_log,
          [tool |-> TOOL_WALLET_SIGN_MESSAGE, args |-> [tx_hash |-> NoneHex, tx_bytes |-> NoneHex],
           result |-> WalletSignMessage_execute(wallet, message)])
    /\ UNCHANGED <<wallet, sim_log, pipeVars, provVars, harnessVars, toolVars>>

\* TransactionSimulator::simulate of transaction t, the RPC answering rpc.
Simulate(t, rpc) ==
    /\ wallet_calls < MaxWalletCalls
    /\ wallet_calls' = wallet_calls + 1
    /\ sim_log' = sim_log \cup {[tx |-> t, rpc |-> rpc, result |-> simulate_request(rpc)]}
    /\ UNCHANGED <<wallet, sign_log, pipeVars, provVars, harnessVars, toolVars>>

\* --------------------------------------------------------------- provenance

\* A JSON value as args or prompt carry it: raw content, or the Redacted value.
RawJson(body, error_class) ==
    [redacted |-> FALSE, hash |-> <<>>, body |-> body, error_class |-> error_class]

\* hash_json
hash_json(value) == <<"blake3", value.body, value.error_class.v>>

\* Redacted::from_json(value).to_value()
RedactedValue(value) ==
    [redacted |-> TRUE, hash |-> hash_json(value), body |-> "", error_class |-> NoneStr]

\* enrich_metadata_with_error_class
enrich_metadata_with_error_class(metadata, args) ==
    IF metadata.error_class.some THEN metadata
    ELSE IF ~args.error_class.some THEN metadata
    ELSE [metadata EXCEPT !.error_class = args.error_class]

\* ProvEvent: data is ToolCall, LlmCall or another variant; payload is the
\* ToolCall's args or the LlmCall's prompt.
ProvEvent(event_type, kind, tool_name, payload, metadata) ==
    [event_type |-> event_type,
     data |-> [kind |-> kind, tool_name |-> tool_name, payload |-> payload, metadata |-> metadata]]

NoEvent == ProvEvent("", "", "", RawJson("", NoneStr), [error_class |-> NoneStr])

\* sanitize_event
sanitize_event(event) ==
    IF event.data.kind \in {"ToolCall", "LlmCall"}
    THEN [event EXCEPT
            !.data.payload = RedactedValue(event.data.payload),
            !.data.metadata = enrich_metadata_with_error_class(event.data.metadata, event.data.payload)]
    ELSE event

\* The events the model hands to add_event.
Events ==
    {ProvEvent("ToolCallStarted", "ToolCall", "paper_trading",
               RawJson("secret", Some("transient")), [error_class |-> NoneStr]),
     ProvEvent("ToolCallCompleted", "ToolCall", "paper_trading",
               RawJson("secret", NoneStr), [error_class |-> Some("permanent")]),
     ProvEvent("LlmCallStarted", "LlmCall", "", RawJson("prompt text", NoneStr),
               [error_class |-> NoneStr]),
     ProvEvent("TaskCreated", "Other", "", RawJson("task", NoneStr), [error_class |-> NoneStr])}

AddSlots == 1..MaxInFlight

IdleAdd == [event |-> NoEvent, pc |-> "idle", result |-> ""]

Line(event) == [kind |-> "line", event |-> event]
Newline == [kind |-> "newline", event |-> NoEvent]

\* A file whose writes land at the start instead of the end.
PrependLine(file, entry) == <<entry>> \o file

\* file.write_all on the file JsonlProvenanceWriter::new opened: the bytes go
\* after everything written before.
AppendLine(file, entry) == Append(file, entry)

\* InMemoryProvenanceStore::add_event keeps the event it is given.
MemoryStore_add_event(store, event) == Append(store, event)

\* The event the fan-out writer hands to each child writer.
FanoutEventFor(event) == event

\* FanoutProvenanceWriter::add_event begins: the first child is the memory store.
Fanout_add_event(p, event) ==
    /\ adds[p].pc \in {"idle", "ok", "err"}
    /\ added < MaxEvents
    /\ added' = added + 1
    /\ adds' = [adds EXCEPT ![p] = [event |-> event, pc |-> "memory", result |-> ""]]
    /\ UNCHANGED <<mem_store, jsonl, jsonl_lock, pipeVars, walletVars, harnessVars, toolVars>>

\* A fan-out that goes on to the next child whatever the first one returned.
AfterFirstChildIgnoringErr(child_ok) == "jsonl"

\* The loop of FanoutProvenanceWriter::add_event after its first child
\* returned: `?` returns the child's error, otherwise the next child is called.
AfterFirstChild(child_ok) == IF child_ok THEN "jsonl" ELSE "err"

\* The fan-out's call of its first child, the memory store: the store keeps
\* the event, or its add_event returns an error.
Fanout_memory(p) ==
    /\ adds[p].pc = "memory"
    /\ \E child_ok \in BOOLEAN :
          /\ mem_store' = IF child_ok
                          THEN MemoryStore_add_event(mem_store, FanoutEventFor(adds[p].event))
                          ELSE mem_store
          /\ adds' = [adds EXCEPT ![p].pc = AfterFirstChild(child_ok),
                                  ![p].result = IF child_ok THEN "" ELSE "Memory"]
    /\ UNCHANGED <<jsonl, jsonl_lock, added, pipeVars, walletVars, harnessVars, toolVars>>

\* JsonlProvenanceWriter::add_event up to self.file.lock().await
Jsonl_lock(p) ==
    /\ adds[p].pc = "jsonl"
    /\ jsonl_lock = 0
    /\ jsonl_lock' = p
    /\ adds' = [adds EXCEPT ![p].pc = "line"]
    /\ UNCHANGED <<mem_store, jsonl, added, pipeVars, walletVars, harnessVars, toolVars>>

\* file.write_all(line.as_bytes()): the line is written, or the write fails
\* and add_event returns the storage error, dropping the lock.
Jsonl_write_line(p) ==
    /\ adds[p].pc = "line"
    /\ jsonl_lock = p
    /\ \E written \in BOOLEAN :
          IF written
          THEN /\ jsonl' = AppendLine(jsonl, Line(sanitize_event(FanoutEventFor(adds[p].event))))
               /\ adds' = [adds EXCEPT ![p].pc = "newline"]
               /\ UNCHANGED jsonl_lock
          ELSE /\ adds' = [adds EXCEPT ![p].pc = "err", ![p].result = "Storage"]
               /\ jsonl_lock' = 0
               /\ UNCHANGED jsonl
    /\ UNCHANGED <<mem_store, added, pipeVars, walletVars, harnessVars, toolVars>>

\* file.write_all(b"\n"), then add_event returns and the lock is dropped.
Jsonl_write_newline(p) ==
    /\ adds[p].pc = "newline"
    /\ jsonl_lock = p
    /\ \E written \in BOOLEAN :
          IF written
          THEN /\ jsonl' = AppendLine(jsonl, Newline)
               /\ adds' = [adds EXCEPT ![p].pc = "ok"]
          ELSE /\ adds' = [adds EXCEPT ![p].pc = "err", ![p].result = "Storage"]
               /\ UNCHANGED jsonl
    /\ jsonl_lock' = 0
    /\ UNCHANGED <<mem_store, added, pipeVars, walletVars, harnessVars, toolVars>>
\* The task running add_event for p is cancelled at an await point (waiting
\* for a child, for the file mutex, or inside either write_all): the future is
\* dropped, which releases the mutex if p holds it, and nothing more is written.
Cancel_add_event(p) ==
    /\ adds[p].pc \in {"memory", "jsonl", "line", "newline"}
    /\ adds' = [adds EXCEPT ![p].pc = "err", ![p].result = "Cancelled"]
    /\ jsonl_lock' = IF jsonl_lock = p THEN 0 ELSE jsonl_lock
    /\ UNCHANGED <<mem_store, jsonl, added, pipeVars, walletVars, harnessVars, toolVars>>

\* ------------------------------------------- provenance events of a dispatch

\* The ToolCallStarted or ToolCallCompleted event of dispatch call_id.
CallEvent(call_id, event_type) ==
    [call_id |-> call_id, event_type |-> event_type,
     data |-> [kind |-> "ToolCall", tool_name |-> TOOL_PAPER_TRADING,
               payload |-> RawJson("secret", NoneStr), metadata |-> [error_class |-> NoneStr]]]

\* add_event entered with event: the fan-out's first child is next.
BeginAdd(event) == [event |-> event, pc |-> "memory", result |-> ""]

\* On request the dispatcher of task p emits ToolCallStarted and awaits add_event.
Emit_ToolCallStarted(p) ==
    /\ calls[p].stage \in {"idle", "done", "blocked"}
    /\ adds[p].pc \in {"idle", "ok", "err"}
    /\ started < MaxDispatches
    /\ started' = started + 1
    /\ calls' = [calls EXCEPT ![p] = [IdleCall EXCEPT !.stage = "request"]]
    /\ adds' = [adds EXCEPT ![p] = BeginAdd(CallEvent(started + 1, "ToolCallStarted"))]
    /\ UNCHANGED <<agent_dir, runner, pipeline, policy, mode, daily, last_trade, audit_log, now, today,
                   last_ok, mem_store, jsonl, jsonl_lock, added, walletVars, harnessVars, toolVars>>

\* add_event failed on request: the dispatch is aborted and completes nothing.
Abort_dispatch(p) ==
    /\ calls[p].stage = "request"
    /\ adds[p].pc = "err"
    /\ calls' = [calls EXCEPT ![p].stage = "blocked"]
    /\ UNCHANGED <<agent_dir, runner, pipeline, policy, mode, daily, last_trade, audit_log, now, today,
                   started, last_ok, provVars, walletVars, harnessVars, toolVars>>

\* add_event returned Ok on request, the tool body ran, and on completion the
\* dispatcher emits ToolCallCompleted and awaits add_event.
Emit_ToolCallCompleted(p) ==
    /\ calls[p].stage = "request"
    /\ adds[p].pc = "ok"
    /\ \E result \in {"ok", "err"} :
          calls' = [calls EXCEPT ![p].stage = "complete", ![p].result = result]
    /\ adds' = [adds EXCEPT ![p] = BeginAdd(CallEvent(adds[p].event.call_id, "ToolCallCompleted"))]
    /\ UNCHANGED <<agent_dir, runner, pipeline, policy, mode, daily, last_trade, audit_log, now, today,
                   started, last_ok, mem_store, jsonl, jsonl_lock, added, walletVars, harnessVars, toolVars>>

\* add_event returned on completion: the dispatch is over.
Finish_dispatch(p) ==
    /\ calls[p].stage = "complete"
    /\ adds[p].pc \in {"ok", "err"}
    /\ calls' = [calls EXCEPT ![p].stage = "done"]
    /\ UNCHANGED <<agent_dir, runner, pipeline, policy, mode, daily, last_trade, audit_log, now, today,
                   started, last_ok, provVars, walletVars, harnessVars, toolVars>>

\* ------------------------------------------------------ harness policy loader

\* telemetry_harness.rs is_valid_tool_name: every byte is a-z, 0-9 or _.
harness_is_valid_tool_name(name) ==
    \A i \in DOMAIN NameChars[name] : NameChars[name][i] \in NameBytes

\* str::trim: the name without leading and trailing spaces.
RECURSIVE TrimStart(_)
TrimStart(cs) == IF cs # <<>> /\ Head(cs) = " " THEN TrimStart(Tail(cs)) ELSE cs
RECURSIVE TrimEnd(_)
TrimEnd(cs) ==
    IF cs # <<>> /\ cs[Len(cs)] = " " THEN TrimEnd(SubSeq(cs, 1, Len(cs) - 1)) ELSE cs
trim(name) == CHOOSE n \in DOMAIN NameChars : NameChars[n] = TrimEnd(TrimStart(NameChars[name]))

\* ToolName::new
ToolName_new(value) ==
    LET trimmed == trim(value)
    IN  IF trimmed = "" THEN NoneStr
        ELSE IF harness_is_valid_tool_name(trimmed) THEN Some(trimmed)
        ELSE NoneStr

\* The harness's PolicyConfig::default().
HarnessDefaultPolicy ==
    [mode |-> "default-deny",
     rules |-> "paper_trading" :> PolicyDecision(TRUE, "allow:paper_trading", "default harness allow")]

\* The loop of load_policy over parsed.rules.
RECURSIVE harness_insert_rules(_, _)
harness_insert_rules(rules, acc) ==
    IF rules = <<>> THEN acc
    ELSE LET rule == Head(rules)
             tool == ToolName_new(rule.tool)
         IN  harness_insert_rules(Tail(rules),
                 IF ~tool.some THEN acc
                 ELSE (tool.v :> PolicyDecision(rule.allowed, rule.rule_id,
                          IF rule.reason.some THEN rule.reason.v ELSE "policy rule")) @@ acc)

\* telemetry_harness.rs load_policy: Ok(config) or Err.
load_policy(file) ==
    IF ~file.exists THEN [ok |-> TRUE, config |-> HarnessDefaultPolicy]
    ELSE IF ~file.readable \/ ~file.parses THEN [ok |-> FALSE, config |-> HarnessDefaultPolicy]
    ELSE [ok |-> TRUE,
          config |-> [mode |-> file.mode, rules |-> harness_insert_rules(file.rules, <<>>)]]

\* The harness's PolicyConfig::decision_for_tool: the rule of the tool, or the
\* default-policy denial; the mode string is not looked at.
harness_decision_for_tool(config, tool) ==
    IF tool \in DOMAIN config.rules THEN config.rules[tool]
    ELSE PolicyDecision(FALSE, "", "denied by default policy")

\* The tool names a snapshot reports on: those ToolName::new accepts.
SnapshotToolNames == {n \in DOMAIN NameChars : ToolName_new(n) = Some(n)}

\* The harness has not loaded a policy yet.
NotLoaded == [loaded |-> FALSE, ok |-> FALSE, config |-> HarnessDefaultPolicy]

\* The harness loads policy.json from the agent directory.
Harness_load_policy ==
    /\ ~harness_policy.loaded
    /\ LET r == load_policy(agent_dir.policy_json)
       IN  harness_policy' = [loaded |-> TRUE, ok |-> r.ok, config |-> r.config]
    /\ UNCHANGED <<pipeVars, walletVars, provVars, snapVars, toolVars>>

\* ------------------------------------------------------------------- inputs

PolicyModes == {"AllowAll", "DefaultDeny"}
SpendLimitModes == {"FailOpen", "FailClosed"}

NoRules == [t \in {} |-> PolicyDecision(TRUE, "", "")]
AllowRule(tool) == tool :> PolicyDecision(TRUE, "allow", "policy rule")
DenyRule(tool) == tool :> PolicyDecision(FALSE, "deny", "execution disabled")

\* The policy of the running pipeline: default-deny, the swap tool allowed
\* under both names, paper trading left to the default.
PipelinePolicy ==
    [mode |-> "DefaultDeny", rules |-> AllowRule(TOOL_ODOS_SWAP) @@ AllowRule(LegacyOdosName)]

\* The policies a loaded policy.json yields in the model.
PolicyConfigs ==
    {[mode |-> m, rules |-> r] :
        m \in PolicyModes,
        r \in {NoRules, AllowRule(TOOL_ODOS_SWAP), DenyRule(TOOL_ODOS_SWAP),
               AllowRule(TOOL_ODOS_SWAP) @@ DenyRule(TOOL_PAPER_TRADING)}}

PrepareUsd(tool, usd) == Ctx(tool, "prepare_swap", Some(usd), NoneStr, NoneAmt, None)
PrepareToken(tool, tok, amt) == Ctx(tool, "prepare_swap", None, tok, amt, None)
Plain(tool, action) == Ctx(tool, action, None, NoneStr, NoneAmt, None)

\* The calls the agent makes while dispatches overlap.
Contexts ==
    {PrepareUsd(TOOL_ODOS_SWAP, MaxPerTrade), PrepareUsd(TOOL_ODOS_SWAP, MaxPerTrade + 1),
     Plain(TOOL_ODOS_SWAP, "quote"), Plain(TOOL_PAPER_TRADING, "get_metrics")}

\* The swap calls the cooldown is about, under the registered tool name and
\* under the name the guard compares with.
CooldownContexts ==
    {Plain(TOOL_ODOS_SWAP, "prepare_swap"), Plain(TOOL_ODOS_SWAP, "quote"),
     Plain(LegacyOdosName, "prepare_swap"), Plain(LegacyOdosName, "quote")}

\* The two tasks whose dispatches overlap in the cooldown guard.
RaceSlots == {1, 2}

\* The calls whose completions overlap in the cooldown guard.
RaceContexts == {Plain(LegacyOdosName, "prepare_swap"), Plain(LegacyOdosName, "quote")}

\* The input_token and amount pairs of a prepare_swap without amount_usd.
TokenInputs ==
    {<<Some("USDC_ETH"), Some(Amount(k, 6))>> : k \in {MaxPerTrade, MaxPerTrade + 1}} \cup
    {<<Some("DAI_ETH"), Some(Amount(1, 18))>>,
     <<Some("WETH_ETH"), Some(Amount(1, 18))>>,
     <<Some("WBTC_ETH"), Some(Amount(1, 8))>>,
     <<Some("0x1234"), Some(Amount(1, 6))>>,
     <<Some("not_an_address"), Some(Amount(1, 6))>>,
     <<Some("USDC_ETH"), Some(NotANumber)>>,
     <<Some("USDC_ETH"), NoneAmt>>,
     <<NoneStr, Some(Amount(1, 6))>>,
     <<NoneStr, NoneAmt>>}

\* The calls the spend limit guard is exercised with.
SpendContexts ==
    {PrepareUsd(TOOL_ODOS_SWAP, usd) : usd \in {1, MaxPerTrade, MaxPerTrade + 1}} \cup
    {PrepareToken(TOOL_ODOS_SWAP, ta[1], ta[2]) : ta \in TokenInputs} \cup
    {Ctx(TOOL_ODOS_SWAP, "prepare_swap", Some(1), Some("WETH_ETH"), Some(Amount(1, 18)), None),
     Ctx(TOOL_ODOS_SWAP, "quote", Some(MaxPerTrade + 1), NoneStr, NoneAmt, None),
     PrepareUsd(LegacyOdosName, MaxPerTrade + 1)}

\* The amount_usd values an agent passes: any JSON number, negative ones included.
AgentAmounts == {0 - MaxPerTrade, 0 - 1, 1, MaxPerTrade, MaxPerTrade + 1}

\* The calls of an agent that chooses amount_usd freely.
ArgContexts ==
    {PrepareUsd(TOOL_ODOS_SWAP, usd) : usd \in AgentAmounts} \cup
    {Ctx(TOOL_ODOS_SWAP, "quote", Some(0 - 1), NoneStr, NoneAmt, None)}

\* Swap preparations that fill the daily total and start the cooldown, then
\* quotes and paper trades with amounts above every limit.
QuoteContexts ==
    {PrepareUsd(TOOL_ODOS_SWAP, MaxPerTrade), Plain(LegacyOdosName, "prepare_swap"),
     Ctx(TOOL_ODOS_SWAP, "quote", Some(MaxDaily + 1), NoneStr, NoneAmt, None),
     Ctx(LegacyOdosName, "quote", Some(MaxDaily + 1), NoneStr, NoneAmt, None),
     PrepareUsd(TOOL_PAPER_TRADING, MaxDaily + 1)}

\* The slippage_percent arguments of a call, in tenths of a percent: absent,
\* the default, the configured maximum, just above it and far above it.
SlippageArgs ==
    {None, Some(DefaultSlippageTenths), Some(MaxSlippageTenths), Some(MaxSlippageTenths + 1),
     Some(5 * MaxSlippageTenths)}

\* Calls to the registered tools with each slippage_percent.
SlippageContexts ==
    {Ctx(TOOL_ODOS_SWAP, action, None, NoneStr, NoneAmt, slippage) :
        action \in {"quote", "prepare_swap"}, slippage \in SlippageArgs} \cup
    {Ctx(TOOL_PAPER_TRADING, "execute_trade", None, NoneStr, NoneAmt, Some(MaxSlippageTenths + 1))}

\* The calls the policy guard is exercised with.
PolicyContexts ==
    {Plain(t, "call") : t \in {TOOL_ODOS_SWAP, TOOL_PAPER_TRADING, TOOL_WALLET_SIGN_TX}}

\* The rules a policy.json is assembled from: rules for registered tools, a
\* name with a dash, and a name only the harness accepts once trimmed.
FileRules ==
    {PolicyRule(TOOL_ODOS_SWAP, FALSE, "deny:defi/odos_swap", Some("execution disabled")),
     PolicyRule(TOOL_ODOS_SWAP, TRUE, "", NoneStr),
     PolicyRule(TOOL_PAPER_TRADING, TRUE, "", NoneStr),
     PolicyRule("odos-swap", FALSE, "", NoneStr),
     PolicyRule(" paper_trading", TRUE, "", NoneStr)}

\* The rule lists of the policy files: up to two of FileRules in either order,
\* and single rules with the other malformed names.
RuleLists ==
    {<<>>} \cup {<<a>> : a \in FileRules} \cup {<<a, b>> : a \in FileRules, b \in FileRules} \cup
    {<<PolicyRule(n, TRUE, "", NoneStr)>> : n \in {"Odos", "defi/", "", "paper_trading"}}

\* The states policy.json can be in when the runner or the harness starts.
PolicyFiles ==
    {MissingFile, UnreadableFile, MalformedFile} \cup
    {PolicyFile(m, rules) : m \in {"allow-all", "default-deny", "deny-all"}, rules \in RuleLists}

\* The configurations the runner is started with.
RunnerConfigs ==
    {RunnerConfig(require_file, default_mode, audit_log_path) :
        require_file \in BOOLEAN, default_mode \in PolicyModes,
        audit_log_path \in {NoneStr, Some("audit.jsonl")}}

\* The calls dispatched after a build.
BuildContexts == {Plain(TOOL_ODOS_SWAP, "quote"), Plain(TOOL_PAPER_TRADING, "get_metrics")}

\* ------------------------------------------------------- telemetry snapshot

\* Option<bool> without a value.
NoneBool == [some |-> FALSE, v |-> FALSE]

\* A ProvEvent as write_snapshot reads it: the kind of its data and, for a
\* ToolCall, the tool name, the outcome and the duration.
SnapEvent(kind, tool_name, success, duration_ms) ==
    [kind |-> kind, tool_name |-> tool_name, success |-> success, duration_ms |-> duration_ms]

\* The entry of a tool no event has been counted for.
NoCounts == [successes |-> 0, failures |-> 0, duration_sum |-> 0, duration_count |-> 0]

\* counts.entry(tool).or_insert((0, 0)) together with stats.get(tool).
CountsOf(counts, tool) == IF tool \in DOMAIN counts THEN counts[tool] ELSE NoCounts

\* The entry of a tool after one of its ToolCall events: as CountOne, but
\* with every event that has an outcome counted as a success.
CountOneAsSuccess(entry, event) ==
    [successes |-> entry.successes + (IF event.success.some THEN 1 ELSE 0),
     failures |-> entry.failures,
     duration_sum |-> entry.duration_sum
                      + (IF event.duration_ms.some THEN event.duration_ms.v ELSE 0),
     duration_count |-> entry.duration_count + (IF event.duration_ms.some THEN 1 ELSE 0)]

\* The entry of a tool after one of its ToolCall events.
CountOne(entry, event) ==
    [successes |-> entry.successes + (IF event.success = Some(TRUE) THEN 1 ELSE 0),
     failures |-> entry.failures + (IF event.success = Some(FALSE) THEN 1 ELSE 0),
     duration_sum |-> entry.duration_sum
                      + (IF event.duration_ms.some THEN event.duration_ms.v ELSE 0),
     duration_count |-> entry.duration_count + (IF event.duration_ms.some THEN 1 ELSE 0)]

\* The first loop of write_snapshot: the aggregation map, keyed by ToolName.
RECURSIVE AggregateEvents(_, _)
AggregateEvents(events, counts) ==
    IF events = <<>> THEN counts
    ELSE LET event == Head(events)
             tool == IF event.kind = "ToolCall" THEN ToolName_new(event.tool_name) ELSE NoneStr
         IN  AggregateEvents(Tail(events),
                 IF ~tool.some THEN counts
                 ELSE (tool.v :> CountOne(CountsOf(counts, tool.v), event)) @@ counts)

\* The orders a HashMap with these keys may be iterated in.
IterationOrders(keys) ==
    {order \in [1..Cardinality(keys) -> keys] :
        \A i, j \in 1..Cardinality(keys) : i # j => order[i] # order[j]}

\* The ToolTelemetry pushed for one tool.
ToolTelemetry(tool, entry) ==
    [tool |-> tool,
     calls |-> entry.successes + entry.failures,
     successes |-> entry.successes,
     failures |-> entry.failures,
     avg_duration_ms |-> IF entry.duration_count = 0 THEN None
                         ELSE Some(<<entry.duration_sum, entry.duration_count>>)]

\* TelemetryTotals before the second loop, with the duration accumulators.
ZeroTotals ==
    [tool_calls |-> 0, tool_successes |-> 0, tool_failures |-> 0,
     total_duration |-> 0, total_duration_count |-> 0]

\* The totals after one tool: as AddToTotals, but keeping only that tool.
TotalsOfLastTool(totals, entry) ==
    [tool_calls |-> entry.successes + entry.failures,
     tool_successes |-> entry.successes,
     tool_failures |-> entry.failures,
     total_duration |-> entry.duration_sum,
     total_duration_count |-> entry.duration_count]

\* The totals after one more tool of the second loop.
AddToTotals(totals, entry) ==
    [tool_calls |-> totals.tool_calls + (entry.successes + entry.failures),
     tool_successes |-> totals.tool_successes + entry.successes,
     tool_failures |-> totals.tool_failures + entry.failures,
     total_duration |-> totals.total_duration + entry.duration_sum,
     total_duration_count |-> totals.total_duration_count + entry.duration_count]

\* The second loop of write_snapshot, over the map in the given order: the
\* tool_calls vector and the totals.
RECURSIVE SecondLoop(_, _, _, _)
SecondLoop(order, counts, tool_calls_vec, totals) ==
    IF order = <<>> THEN [tool_calls |-> tool_calls_vec, totals |-> totals]
    ELSE SecondLoop(Tail(order), counts,
                    Append(tool_calls_vec, ToolTelemetry(Head(order), counts[Head(order)])),
                    AddToTotals(totals, counts[Head(order)]))

\* snapshot_schema_hash(): the hash of the constant SCHEMA text.
snapshot_schema_hash == <<"blake3", "SCHEMA">>

\* NonEmptyVec::try_from_vec(v).is_some(): as NonEmpty, but for every vector.
NonEmptyAlways(tool_calls_vec) == TRUE

\* NonEmptyVec::try_from_vec(v).is_some()
NonEmpty(tool_calls_vec) == tool_calls_vec # <<>>

\* The TelemetrySnapshot write_snapshot serializes.
TelemetrySnapshot(generated_at_ms, loop) ==
    [snapshot_version |-> "V1",
     schema_hash |-> snapshot_schema_hash,
     generated_at_ms |-> generated_at_ms,
     tool_calls |-> loop.tool_calls,
     totals |-> [tool_calls |-> loop.totals.tool_calls,
                 tool_successes |-> loop.totals.tool_successes,
                 tool_failures |-> loop.totals.tool_failures,
                 avg_duration_ms |-> IF loop.totals.total_duration_count = 0 THEN None
                                     ELSE Some(<<loop.totals.total_duration,
                                                 loop.totals.total_duration_count>>)]]

\* The snapshot path before any snapshot is written.
NoFile == [exists |-> FALSE, complete |-> FALSE, snapshot |-> TelemetrySnapshot(0, SecondLoop(<<>>, <<>>, <<>>, ZeroTotals))]

\* An unwritten snapshot path, and no call of write_snapshot yet.
InitSnapshot ==
    /\ snap_events = <<>>
    /\ snapshot_file = NoFile
    /\ snapshots = <<>>

\* write_snapshot(path, events, policy, cost_model): the map is iterated in
\* some order; an empty tool_calls vector is the error, returned before the
\* file is opened; otherwise the file is created or truncated and written,
\* which may fail and leave it incomplete.
Harness_write_snapshot ==
    /\ Len(snapshots) < MaxSnapshots
    /\ LET counts == AggregateEvents(snap_events, <<>>)
       IN  \E order \in IterationOrders(DOMAIN counts), written \in BOOLEAN :
              LET loop == SecondLoop(order, counts, <<>>, ZeroTotals)
                  snapshot == TelemetrySnapshot(Len(snapshots) + 1, loop)
              IN  IF ~NonEmpty(loop.tool_calls)
                  THEN /\ written
                       /\ snapshots' = Append(snapshots,
                              [ok |-> FALSE, err |-> "No tool call telemetry available",
                               snapshot |-> snapshot])
                       /\ UNCHANGED snapshot_file
                  ELSE /\ snapshots' = Append(snapshots,
                              [ok |-> written, err |-> IF written THEN "" ELSE "io",
                               snapshot |-> snapshot])
                       /\ snapshot_file' = [exists |-> TRUE, complete |-> written,
                                            snapshot |-> snapshot]
    /\ UNCHANGED <<snap_events, harness_policy, pipeVars, walletVars, provVars, toolVars>>

\* ------------------------------------------------------------ graph gateway

\* Gateway time and TTLs are counted in units of 30 seconds.

\* The (subgraph_id, query, variables) of the modelled requests.
Triples ==
    {[subgraph_id |-> "s1", query |-> "q1", variables |-> "v1"],
     [subgraph_id |-> "s1", query |-> "q1", variables |-> "v2"],
     [subgraph_id |-> "s2", query |-> "q1", variables |-> "v1"]}

\* The values of the hasher: DefaultHasher maps every triple to one of 2^64
\* keys; here three triples are mapped to one of two.
KeySpace == {"k1", "k2"}

\* BasicGraphGateway::cache_key
cache_key(hasher, triple) == hasher[triple]

\* QueryRoutingHints, as far as query_with_routing acts on them.
QueryRoutingHints(cache_ttl_secs, force_fresh) ==
    [cache_ttl_secs |-> cache_ttl_secs, force_fresh |-> force_fresh]

\* No query_with_routing call is waiting for a response.
NoCall == [active |-> FALSE, triple |-> CHOOSE t \in Triples : TRUE,
           hints |-> QueryRoutingHints(None, FALSE)]

\* No result has been returned yet.
NoResult ==
    [some |-> FALSE, ok |-> FALSE, cached |-> FALSE, outbound |-> FALSE, at |-> 0,
     triple |-> NoCall.triple, hints |-> NoCall.hints, data |-> NoCall.triple, subgraph_id |-> ""]

\* The result of an outbound query for a triple.
GatewayQueryResult(triple) ==
    [data |-> triple, cached |-> FALSE, subgraph_id |-> triple.subgraph_id]

\* The cache check of query_with_routing: the entry under the key, unless the
\* request forces a fresh query, there is none, or it has expired.
EntryToServe(cache, key, hints, instant) ==
    IF ~hints.force_fresh /\ key \in DOMAIN cache /\ cache[key].expires_at > instant
    THEN Some(cache[key]) ELSE [some |-> FALSE, v |-> [result |-> GatewayQueryResult(NoCall.triple), expires_at |-> 0]]

\* The TTL of the entry a request stores.
cache_ttl(hints) == IF hints.cache_ttl_secs.some THEN hints.cache_ttl_secs.v ELSE DefaultCacheTtl

\* clean_expired_cache: cache.retain(|_, entry| entry.expires_at > now)
clean_expired_cache(cache, instant) ==
    [k \in {key \in DOMAIN cache : cache[key].expires_at > instant} |-> cache[k]]

\* A gateway with an empty cache.
InitGateway ==
    /\ gw_cache = <<>>
    /\ gw_call = NoCall
    /\ gw_stores = {}
    /\ gw_result = NoResult
    /\ gw_now = 0
    /\ gw_cleaners = 0
    /\ gw_calls = 0

\* query_with_routing up to the first await of the outbound request: a cache
\* hit returns the stored result marked cached, otherwise the request is sent.
Gateway_query_with_routing(triple, hints) ==
    /\ ~gw_call.active
    /\ gw_calls < MaxQueries
    /\ gw_calls' = gw_calls + 1
    /\ LET entry == EntryToServe(gw_cache, cache_key(gw_hasher, triple), hints, gw_now)
       IN  IF entry.some
           THEN /\ gw_result' = [some |-> TRUE, ok |-> TRUE, cached |-> TRUE, outbound |-> FALSE,
                                 at |-> gw_now, triple |-> triple, hints |-> hints,
                                 data |-> entry.v.result.data,
                                 subgraph_id |-> entry.v.result.subgraph_id]
                /\ UNCHANGED gw_call
           ELSE /\ gw_call' = [active |-> TRUE, triple |-> triple, hints |-> hints]
                /\ UNCHANGED gw_result
    /\ UNCHANGED <<gw_hasher, gw_cache, gw_stores, gw_now, gw_cleaners,
                   paperVars, rpcVars, loopVars, pipeVars, walletVars, provVars, harnessVars>>

\* The rest of query_with_routing: the response arrives; an error response is
\* returned as the error, a good one is stored under the key with the TTL of
\* the request and returned, and a sweep of the cache may be spawned.
Gateway_response ==
    /\ gw_call.active
    /\ gw_call' = NoCall
    /\ \E good \in BOOLEAN, sweep \in BOOLEAN :
          LET triple == gw_call.triple
              result == GatewayQueryResult(triple)
          IN  /\ gw_result' = [some |-> TRUE, ok |-> good, cached |-> FALSE, outbound |-> TRUE,
                                at |-> gw_now, triple |-> triple, hints |-> gw_call.hints,
                                data |-> result.data, subgraph_id |-> result.subgraph_id]
              /\ IF good
                 THEN /\ gw_cache' = (cache_key(gw_hasher, triple) :>
                                         [result |-> result,
                                          expires_at |-> gw_now + cache_ttl(gw_call.hints)])
                                     @@ gw_cache
                      /\ gw_stores' = gw_stores \cup
                             {[triple |-> triple, at |-> gw_now, ttl |-> cache_ttl(gw_call.hints)]}
                      /\ gw_cleaners' = IF sweep THEN 1 ELSE gw_cleaners
                 ELSE /\ ~sweep
                      /\ UNCHANGED <<gw_cache, gw_stores, gw_cleaners>>
    /\ UNCHANGED <<gw_hasher, gw_now, gw_calls,
                   paperVars, rpcVars, loopVars, pipeVars, walletVars, provVars, harnessVars>>

\* A spawned clean_expired_cache task runs.
Gateway_clean_expired_cache ==
    /\ gw_cleaners > 0
    /\ gw_cleaners' = gw_cleaners - 1
    /\ gw_cache' = clean_expired_cache(gw_cache, gw_now)
    /\ UNCHANGED <<gw_hasher, gw_call, gw_stores, gw_result, gw_now, gw_calls,
                   paperVars, rpcVars, loopVars, pipeVars, walletVars, provVars, harnessVars>>

\* Thirty seconds pass.
Gateway_tick ==
    /\ gw_now < MaxTime
    /\ gw_now' = gw_now + 1
    /\ UNCHANGED <<gw_hasher, gw_cache, gw_call, gw_stores, gw_result, gw_cleaners, gw_calls,
                   paperVars, rpcVars, loopVars, pipeVars, walletVars, provVars, harnessVars>>

\* ---------------------------------------------------------- paper portfolio

\* Token amounts are U256 values; the model keeps the type's wrap-around with
\* MaxAmount in the place of 2^256 - 1.  Amount strings are the numbers.

USDC_ETH == "USDC_ETH"
WETH_ETH == "WETH_ETH"
Tokens == {USDC_ETH, WETH_ETH}

\* holdings.get(token).copied().unwrap_or(U256::ZERO)
Holding(holdings, address) == IF address \in DOMAIN holdings THEN holdings[address] ELSE 0

\* U256 + U256
U256_add(a, b) == (a + b) % (MaxAmount + 1)

\* holdings.insert(token, amount)
HoldingsInsert(holdings, address, amount) == (address :> amount) @@ holdings

\* holdings.remove(token)
HoldingsRemove(holdings, address) == [t \in DOMAIN holdings \ {address} |-> holdings[t]]

\* PaperPortfolio::new(initial_usd).holdings
NewHoldings(usdc_amount) == USDC_ETH :> usdc_amount

\* The PaperTrade pushed by a swap.
PaperTrade(input_token, output_token, input_amount, expected_output) ==
    [input_token |-> input_token, output_token |-> output_token,
     input_amount |-> input_amount, output_amount |-> expected_output,
     expected_output |-> expected_output]

\* No execute_swap call has returned yet.
NoSwap ==
    [some |-> FALSE, ok |-> FALSE, err |-> "", input_token |-> USDC_ETH, output_token |-> USDC_ETH,
     input_amount |-> 0, expected_output |-> 0]

\* The callers of PaperTradingState::execute_swap that may overlap.
SwapSlots == {"s1", "s2"}

\* The arguments of an execute_swap call.
SwapArgs(input_token, output_token, input_amount, expected_output) ==
    [input_token |-> input_token, output_token |-> output_token,
     input_amount |-> input_amount, expected_output |-> expected_output]

\* A caller that has not called yet.
IdleSwap == [pc |-> "idle", args |-> SwapArgs(USDC_ETH, USDC_ETH, 0, 0), current_balance |-> 0,
             ok |-> FALSE, err |-> ""]

\* The shared state with nobody using it.
InitSharedPaper ==
    /\ paper_lock = "free"
    /\ swaps = [c \in SwapSlots |-> IdleSwap]
    /\ paper_order = <<>>

\* A new portfolio without an initial balance.
InitPaper ==
    /\ paper_holdings = NewHoldings(0)
    /\ paper_trades = <<>>
    /\ paper_result = NoSwap
    /\ paper_calls = 0
    /\ InitSharedPaper
    /\ paper_start = NewHoldings(0)

\* PaperPortfolio::execute_swap
Paper_execute_swap(input_token, output_token, input_amount, expected_output) ==
    /\ paper_calls < MaxSwaps
    /\ paper_calls' = paper_calls + 1
    /\ LET current_balance == Holding(paper_holdings, input_token)
           new_input_balance == current_balance - input_amount
           deducted == IF new_input_balance = 0
                       THEN HoldingsRemove(paper_holdings, input_token)
                       ELSE HoldingsInsert(paper_holdings, input_token, new_input_balance)
           current_output == Holding(deducted, output_token)
           call == [some |-> TRUE, ok |-> TRUE, err |-> "", input_token |-> input_token,
                    output_token |-> output_token, input_amount |-> input_amount,
                    expected_output |-> expected_output]
       IN  IF current_balance < input_amount
           THEN /\ paper_result' = [call EXCEPT !.ok = FALSE, !.err = "Insufficient balance"]
                /\ UNCHANGED <<paper_holdings, paper_trades>>
           ELSE /\ paper_holdings' = HoldingsInsert(deducted, output_token,
                                                    U256_add(current_output, expected_output))
                /\ paper_trades' = Append(paper_trades,
                       PaperTrade(input_token, output_token, input_amount, expected_output))
                /\ paper_result' = call
    /\ UNCHANGED <<paper_lock, swaps, paper_start, paper_order,
                   gatewayVars, rpcVars, loopVars, pipeVars, walletVars, provVars, harnessVars>>

\* portfolio.write() can be acquired: as WriteLockFree, but whoever holds it.
WriteLockIgnored(lock) == TRUE

\* portfolio.write() can be acquired: nobody holds the lock.
WriteLockFree(lock) == lock = "free"

\* PaperTradingState::execute_swap is called.
Swap_call(c, args) ==
    /\ swaps[c].pc = "idle"
    /\ swaps' = [swaps EXCEPT ![c].pc = "lock", ![c].args = args]
    /\ UNCHANGED <<paper_holdings, paper_trades, paper_result, paper_calls, paper_lock,
                   paper_start, paper_order,
                   gatewayVars, rpcVars, loopVars, pipeVars, walletVars, provVars, harnessVars>>

\* self.portfolio.write().await
Swap_lock(c) ==
    /\ swaps[c].pc = "lock"
    /\ WriteLockFree(paper_lock)
    /\ paper_lock' = c
    /\ paper_order' = Append(paper_order, swaps[c].args)
    /\ swaps' = [swaps EXCEPT ![c].pc = "check"]
    /\ UNCHANGED <<paper_holdings, paper_trades, paper_result, paper_calls, paper_start,
                   gatewayVars, rpcVars, loopVars, pipeVars, walletVars, provVars, harnessVars>>

\* PaperPortfolio::execute_swap: the balance is read and tested.
Swap_check(c) ==
    /\ swaps[c].pc = "check"
    /\ LET current_balance == Holding(paper_holdings, swaps[c].args.input_token)
       IN  swaps' = IF current_balance < swaps[c].args.input_amount
                    THEN [swaps EXCEPT ![c].pc = "return", ![c].ok = FALSE,
                                       ![c].err = "Insufficient balance"]
                    ELSE [swaps EXCEPT ![c].pc = "debit", ![c].current_balance = current_balance]
    /\ UNCHANGED <<paper_holdings, paper_trades, paper_result, paper_calls, paper_lock,
                   paper_start, paper_order,
                   gatewayVars, rpcVars, loopVars, pipeVars, walletVars, provVars, harnessVars>>

\* PaperPortfolio::execute_swap: the input token is deducted.
Swap_debit(c) ==
    /\ swaps[c].pc = "debit"
    /\ LET new_input_balance == swaps[c].current_balance - swaps[c].args.input_amount
       IN  paper_holdings' =
               IF new_input_balance = 0
               THEN HoldingsRemove(paper_holdings, swaps[c].args.input_token)
               ELSE HoldingsInsert(paper_holdings, swaps[c].args.input_token, new_input_balance)
    /\ swaps' = [swaps EXCEPT ![c].pc = "credit"]
    /\ UNCHANGED <<paper_trades, paper_result, paper_calls, paper_lock, paper_start, paper_order,
                   gatewayVars, rpcVars, loopVars, pipeVars, walletVars, provVars, harnessVars>>

\* PaperPortfolio::execute_swap: the output token is added.
Swap_credit(c) ==
    /\ swaps[c].pc = "credit"
    /\ paper_holdings' = HoldingsInsert(paper_holdings, swaps[c].args.output_token,
                            U256_add(Holding(paper_holdings, swaps[c].args.output_token),
                                     swaps[c].args.expected_output))
    /\ swaps' = [swaps EXCEPT ![c].pc = "record"]
    /\ UNCHANGED <<paper_trades, paper_result, paper_calls, paper_lock, paper_start, paper_order,
                   gatewayVars, rpcVars, loopVars, pipeVars, walletVars, provVars, harnessVars>>

\* PaperPortfolio::execute_swap: the trade is pushed.
Swap_record(c) ==
    /\ swaps[c].pc = "record"
    /\ paper_trades' = Append(paper_trades,
           PaperTrade(swaps[c].args.input_token, swaps[c].args.output_token,
                      swaps[c].args.input_amount, swaps[c].args.expected_output))
    /\ swaps' = [swaps EXCEPT ![c].pc = "return", ![c].ok = TRUE]
    /\ UNCHANGED <<paper_holdings, paper_result, paper_calls, paper_lock, paper_start, paper_order,
                   gatewayVars, rpcVars, loopVars, pipeVars, walletVars, provVars, harnessVars>>

\* PaperTradingState::execute_swap returns, after the auto-save of a
\* successful swap, which may fail with a warning; the write guard is dropped.
Swap_return(c) ==
    /\ swaps[c].pc = "return"
    /\ paper_lock' = IF paper_lock = c THEN "free" ELSE paper_lock
    /\ swaps' = [swaps EXCEPT ![c].pc = "done"]
    /\ UNCHANGED <<paper_holdings, paper_trades, paper_result, paper_calls, paper_start, paper_order,
                   gatewayVars, rpcVars, loopVars, pipeVars, walletVars, provVars, harnessVars>>

\* PaperPortfolio::execute_swap as one function of the portfolio: the
\* holdings and the trades after it.
execute_swap(portfolio, args) ==
    LET current_balance == Holding(portfolio.holdings, args.input_token)
        new_input_balance == current_balance - args.input_amount
        deducted == IF new_input_balance = 0
                    THEN HoldingsRemove(portfolio.holdings, args.input_token)
                    ELSE HoldingsInsert(portfolio.holdings, args.input_token, new_input_balance)
    IN  IF current_balance < args.input_amount THEN portfolio
        ELSE [holdings |-> HoldingsInsert(deducted, args.output_token,
                              U256_add(Holding(deducted, args.output_token), args.expected_output)),
              trades |-> Append(portfolio.trades,
                                PaperTrade(args.input_token, args.output_token,
                                           args.input_amount, args.expected_output))]

\* The portfolio after the swaps of a list, one after the other.
RECURSIVE SwapsInOrder(_, _)
SwapsInOrder(portfolio, order) ==
    IF order = <<>> THEN portfolio
    ELSE SwapsInOrder(execute_swap(portfolio, Head(order)), Tail(order))

\* ------------------------------------------------------------ RPC endpoints

Chains == {ETHEREUM, ARBITRUM, OPTIMISM, BASE, POLYGON}

\* env_vars: the per-chain variable of each chain.
ChainVar ==
    (ETHEREUM :> "ETH_RPC_URL") @@ (ARBITRUM :> "ARBITRUM_RPC_URL") @@
    (OPTIMISM :> "OPTIMISM_RPC_URL") @@ (BASE :> "BASE_RPC_URL") @@ (POLYGON :> "POLYGON_RPC_URL")

\* env_vars: the variables from_env reads.
EnvVars ==
    {ChainVar[c] : c \in Chains} \cup
    {"ALCHEMY_API_KEY", "INFURA_API_KEY", "QUICKNODE_SUBDOMAIN", "QUICKNODE_API_KEY"}

\* public_rpcs
public_rpcs ==
    (ETHEREUM :> <<"https://eth.llamarpc.com">>) @@
    (ARBITRUM :> <<"https://arb1.arbitrum.io/rpc">>) @@
    (OPTIMISM :> <<"https://mainnet.optimism.io">>) @@
    (BASE :> <<"https://mainnet.base.org">>) @@
    (POLYGON :> <<"https://polygon-rpc.com">>)

\* The URLs from_env builds from ALCHEMY_API_KEY.  A URL is the sequence of
\* the parts it is formatted from.
AlchemyUrls(key) ==
    (ETHEREUM :> <<"https://eth-mainnet.g.alchemy.com/v2/", key>>) @@
    (ARBITRUM :> <<"https://arb-mainnet.g.alchemy.com/v2/", key>>) @@
    (OPTIMISM :> <<"https://opt-mainnet.g.alchemy.com/v2/", key>>) @@
    (BASE :> <<"https://base-mainnet.g.alchemy.com/v2/", key>>) @@
    (POLYGON :> <<"https://polygon-mainnet.g.alchemy.com/v2/", key>>)

\* The URLs from_env builds from INFURA_API_KEY: none for Base.
InfuraUrls(key) ==
    (ETHEREUM :> <<"https://mainnet.infura.io/v3/", key>>) @@
    (ARBITRUM :> <<"https://arbitrum-mainnet.infura.io/v3/", key>>) @@
    (OPTIMISM :> <<"https://optimism-mainnet.infura.io/v3/", key>>) @@
    (POLYGON :> <<"https://polygon-mainnet.infura.io/v3/", key>>)

\* The URL from_env builds from QUICKNODE_SUBDOMAIN, for Ethereum only.
QuickNodeUrls(subdomain, api_key) ==
    ETHEREUM :> <<"https://", subdomain, ".quiknode.pro",
                  IF api_key = "" THEN "" ELSE "/", api_key>>

\* The explicit per-chain URLs of the environment.
PerChainUrls(env) ==
    [c \in {chain \in Chains : env[ChainVar[chain]].some} |-> <<env[ChainVar[c]].v>>]

\* The URLs a provider key gives: the first of Alchemy, Infura and QuickNode
\* that is configured.
ProviderUrls(env) ==
    IF env["ALCHEMY_API_KEY"].some THEN AlchemyUrls(env["ALCHEMY_API_KEY"].v)
    ELSE IF env["INFURA_API_KEY"].some THEN InfuraUrls(env["INFURA_API_KEY"].v)
    ELSE IF env["QUICKNODE_SUBDOMAIN"].some
         THEN QuickNodeUrls(env["QUICKNODE_SUBDOMAIN"].v,
                            IF env["QUICKNODE_API_KEY"].some THEN env["QUICKNODE_API_KEY"].v ELSE "")
    ELSE <<>>

\* RpcConfig::from_env: the provider keys are read only if no per-chain
\* variable is set; the public endpoints fill the chains still missing.
from_env(env) ==
    LET per_chain == PerChainUrls(env)
        urls == IF DOMAIN per_chain = {} THEN ProviderUrls(env) ELSE per_chain
    IN  urls @@ public_rpcs

\* from_env has not run.
NoRpcConfig == [some |-> FALSE, urls |-> <<>>]

\* An environment without any of the variables.
InitRpc ==
    /\ rpc_env = [v \in EnvVars |-> NoneStr]
    /\ rpc_config = NoRpcConfig

\* RpcConfig::from_env()
Rpc_from_env ==
    /\ ~rpc_config.some
    /\ rpc_config' = [some |-> TRUE, urls |-> from_env(rpc_env)]
    /\ UNCHANGED <<rpc_env, gatewayVars, paperVars, loopVars, pipeVars, walletVars, provVars, harnessVars>>

\* ---------------------------------------------------------------- drive loop

\* The holder name of the drive loop in bridge_lock.
LoopTask == "loop"

\* The other tasks that may ask for the bridge.
OtherTasks == {"t1", "t2"}

\* Nobody holds the bridge lock.
Free == "free"

\* The lock after the guard of start_trading_loop goes out of scope between
\* two polls: as GuardAfterPoll, but released.
GuardDroppedAfterPoll(holder) == Free

\* The lock after a poll: start_trading_loop keeps bridge_guard, taken before
\* the loop, for as long as the loop runs.
GuardAfterPoll(holder) == holder

\* The runner before start_trading_loop, nobody using the bridge.
InitLoop ==
    /\ bridge_lock = Free
    /\ loop_pc = "config"
    /\ loop_dry_run = FALSE
    /\ polls = 0
    /\ tasks = [t \in OtherTasks |-> "idle"]
    /\ bridge_uses = 0

\* start_trading_loop up to bridge.lock(): in dry-run mode it prints the
\* configuration and returns.
Loop_build_config ==
    /\ loop_pc = "config"
    /\ loop_pc' = IF loop_dry_run THEN "returned" ELSE "lock"
    /\ UNCHANGED <<bridge_lock, loop_dry_run, polls, tasks, bridge_uses,
                   gatewayVars, paperVars, rpcVars, pipeVars, walletVars, provVars, harnessVars>>

\* bridge.lock().await of start_trading_loop
Loop_lock ==
    /\ loop_pc = "lock"
    /\ bridge_lock = Free
    /\ bridge_lock' = LoopTask
    /\ loop_pc' = "evaluate"
    /\ UNCHANGED <<loop_dry_run, polls, tasks, bridge_uses,
                   gatewayVars, paperVars, rpcVars, pipeVars, walletVars, provVars, harnessVars>>

\* bridge_guard.evaluate(js_code): an error returns, dropping the guard.
Loop_evaluate ==
    /\ loop_pc = "evaluate"
    /\ \E started_ok \in BOOLEAN :
          /\ loop_pc' = IF started_ok THEN "poll" ELSE "returned"
          /\ bridge_lock' = IF started_ok THEN bridge_lock ELSE Free
    /\ UNCHANGED <<loop_dry_run, polls, tasks, bridge_uses,
                   gatewayVars, paperVars, rpcVars, pipeVars, walletVars, provVars, harnessVars>>

\* bridge_guard.poll_event_loop(), then the loop goes to sleep.
Loop_poll ==
    /\ loop_pc = "poll"
    /\ polls' = IF polls < MaxPolls THEN polls + 1 ELSE polls
    /\ loop_pc' = "sleep"
    /\ bridge_lock' = GuardAfterPoll(bridge_lock)
    /\ UNCHANGED <<loop_dry_run, tasks, bridge_uses,
                   gatewayVars, paperVars, rpcVars, pipeVars, walletVars, provVars, harnessVars>>

\* tokio::time::sleep(10 ms) is over; the next iteration polls with the guard
\* the loop has, taking the lock again only if it had given it up.
Loop_wake ==
    /\ loop_pc = "sleep"
    /\ bridge_lock \in {Free, LoopTask}
    /\ bridge_lock' = LoopTask
    /\ loop_pc' = "poll"
    /\ UNCHANGED <<loop_dry_run, polls, tasks, bridge_uses,
                   gatewayVars, paperVars, rpcVars, pipeVars, walletVars, provVars, harnessVars>>

\* Another task calls bridge.lock().
Task_request(t) ==
    /\ tasks[t] = "idle"
    /\ bridge_uses < MaxBridgeUses
    /\ bridge_uses' = bridge_uses + 1
    /\ tasks' = [tasks EXCEPT ![t] = "waiting"]
    /\ UNCHANGED <<bridge_lock, loop_pc, loop_dry_run, polls,
                   gatewayVars, paperVars, rpcVars, pipeVars, walletVars, provVars, harnessVars>>

\* The lock is free and a waiting task gets it.
Task_acquire(t) ==
    /\ tasks[t] = "waiting"
    /\ bridge_lock = Free
    /\ bridge_lock' = t
    /\ tasks' = [tasks EXCEPT ![t] = "holding"]
    /\ UNCHANGED <<loop_pc, loop_dry_run, polls, bridge_uses,
                   gatewayVars, paperVars, rpcVars, pipeVars, walletVars, provVars, harnessVars>>

\* A task is done with the bridge and drops its guard.
Task_release(t) ==
    /\ tasks[t] = "holding"
    /\ bridge_lock' = Free
    /\ tasks' = [tasks EXCEPT ![t] = "idle"]
    /\ UNCHANGED <<loop_pc, loop_dry_run, polls, bridge_uses,
                   gatewayVars, paperVars, rpcVars, pipeVars, walletVars, provVars, harnessVars>>

\* The tools outside the pipeline, before they are used.
InitTools ==
    /\ gw_hasher = [t \in Triples |-> "k1"]
    /\ InitGateway
    /\ InitPaper
    /\ InitRpc
    /\ InitLoop

\* ----------------------------------------------------------- specifications

vars == <<agent_dir, runner, pipeline, policy, mode, daily, last_trade, audit_log, now, today, calls, started, last_ok,
          wallet, sim_log, sign_log, wallet_calls,
          mem_store, jsonl, jsonl_lock, adds, added, harness_policy,
          snap_events, snapshot_file, snapshots,
          gw_hasher, gw_cache, gw_call, gw_stores, gw_result, gw_now, gw_cleaners, gw_calls,
          paper_holdings, paper_trades, paper_result, paper_calls, rpc_env, rpc_config,
          bridge_lock, loop_pc, loop_dry_run, polls, tasks, bridge_uses,
          paper_lock, swaps, paper_start, paper_order>>

\* A runtime built under the default configuration.
InitBuilt ==
    /\ agent_dir = [policy_json |-> MissingFile]
    /\ runner = BuiltRunner(DefaultConfig)
    /\ pipeline = InstalledGuards(DefaultConfig.audit_log_path)
    /\ harness_policy = NotLoaded
    /\ InitSnapshot
    /\ InitTools

InitPipe ==
    /\ daily = NewDailySpending(0)
    /\ last_trade = None
    /\ audit_log = <<>>
    /\ now = 0
    /\ today = 0
    /\ calls = [d \in Slots |-> IdleCall]
    /\ started = 0
    /\ last_ok = None

InitWallet ==
    /\ sim_log = {}
    /\ sign_log = <<>>
    /\ wallet_calls = 0

InitProv ==
    /\ mem_store = <<>>
    /\ jsonl = <<>>
    /\ jsonl_lock = 0
    /\ adds = [p \in AddSlots |-> IdleAdd]
    /\ added = 0

\* The hooks and the body of dispatch d.
DispatchStep(d) ==
    \/ Policy_intercept_tool_call(d)
    \/ SpendLimit_intercept_tool_call(d)
    \/ SlippageGuard_intercept_tool_call(d)
    \/ Cooldown_intercept_tool_call(d)
    \/ Audit_intercept_tool_call(d)
    \/ ToolBody(d)
    \/ Policy_on_tool_call_complete(d)
    \/ SpendLimit_on_tool_call_complete(d)
    \/ SlippageGuard_on_tool_call_complete(d)
    \/ Cooldown_on_tool_call_complete(d)
    \/ Audit_on_tool_call_complete(d)

\* The pipeline as the runner builds it, dispatches overlapping.
Init ==
    /\ policy = PipelinePolicy
    /\ mode = "FailOpen"
    /\ wallet = from_hex
    /\ InitBuilt /\ InitPipe /\ InitWallet /\ InitProv

Next ==
    \/ \E d \in Slots, ctx \in Contexts : StartDispatch(d, ctx)
    \/ \E d \in Slots : DispatchStep(d)

Spec == Init /\ [][Next]_vars

\* One dispatch at a time while the monotonic clock advances.
NextCooldown ==
    \/ \E ctx \in CooldownContexts : StartDispatch(1, ctx)
    \/ DispatchStep(1)
    \/ Tick

SpecCooldown == Init /\ [][NextCooldown]_vars

\* Overlapping dispatches while the monotonic clock advances.
NextCooldownRace ==
    \/ \E d \in RaceSlots, ctx \in RaceContexts : StartDispatch(d, ctx)
    \/ \E d \in RaceSlots : DispatchStep(d)
    \/ Tick

SpecCooldownRace == Init /\ [][NextCooldownRace]_vars

\* One dispatch at a time, under either spend limit mode, across UTC days.
InitSpend ==
    /\ policy = PipelinePolicy
    /\ mode \in SpendLimitModes
    /\ wallet = from_hex
    /\ InitBuilt /\ InitPipe /\ InitWallet /\ InitProv

NextSpend ==
    \/ \E ctx \in SpendContexts : StartDispatch(1, ctx)
    \/ DispatchStep(1)
    \/ NewDay

SpecSpend == InitSpend /\ [][NextSpend]_vars

\* One dispatch at a time with agent-chosen amount_usd, across UTC days.
NextSpendArgs ==
    \/ \E ctx \in ArgContexts : StartDispatch(1, ctx)
    \/ DispatchStep(1)
    \/ NewDay

SpecSpendArgs == InitSpend /\ [][NextSpendArgs]_vars

\* Calls that each guard blocks, and the swap preparations that put the
\* stateful guards into the states in which they block.
BlockedContexts ==
    {PrepareUsd(TOOL_ODOS_SWAP, MaxPerTrade), PrepareUsd(TOOL_ODOS_SWAP, MaxPerTrade + 1),
     Plain(LegacyOdosName, "prepare_swap"),
     Ctx(LegacyOdosName, "prepare_swap", None, NoneStr, NoneAmt, Some(MaxSlippageTenths + 1)),
     Plain(TOOL_PAPER_TRADING, "get_metrics")}

\* One dispatch at a time through the runner's pipeline while the clock
\* advances and the UTC date changes.
NextBlocked ==
    \/ \E ctx \in BlockedContexts : StartDispatch(1, ctx)
    \/ DispatchStep(1)
    \/ Tick
    \/ NewDay

SpecBlocked == Init /\ [][NextBlocked]_vars

\* One dispatch at a time under an allow-all policy while the clock advances.
InitQuotes ==
    /\ policy = from_mode("AllowAll")
    /\ mode \in SpendLimitModes
    /\ wallet = from_hex
    /\ InitBuilt /\ InitPipe /\ InitWallet /\ InitProv

NextQuotes ==
    \/ \E ctx \in QuoteContexts : StartDispatch(1, ctx)
    \/ DispatchStep(1)
    \/ Tick

SpecQuotes == InitQuotes /\ [][NextQuotes]_vars

\* One dispatch at a time under an allow-all policy, slippage_percent varying.
NextSlippage ==
    \/ \E ctx \in SlippageContexts : StartDispatch(1, ctx)
    \/ DispatchStep(1)

SpecSlippage == InitQuotes /\ [][NextSlippage]_vars

\* One dispatch at a time, under each policy.
InitPolicy ==
    /\ policy \in PolicyConfigs
    /\ mode = "FailOpen"
    /\ wallet = from_hex
    /\ InitBuilt /\ InitPipe /\ InitWallet /\ InitProv

NextPolicy ==
    \/ \E ctx \in PolicyContexts : StartDispatch(1, ctx)
    \/ DispatchStep(1)

SpecPolicy == InitPolicy /\ [][NextPolicy]_vars

\* The signing tools and the simulator, the wallet live or in dry-run mode.
InitWalletTools ==
    /\ policy = PipelinePolicy
    /\ mode = "FailOpen"
    /\ wallet \in {with_dry_run(from_hex, dry_run) : dry_run \in BOOLEAN}
    /\ InitBuilt /\ InitPipe /\ InitWallet /\ InitProv

NextWallet ==
    \/ \E args \in SignTxArgs : WalletSignTx(args)
    \/ \E message \in {"hello"} : WalletSignMessage(message)
    \/ \E t \in TxIds, rpc \in RpcOutcomes : Simulate(t, rpc)

SpecWallet == InitWalletTools /\ [][NextWallet]_vars

\* The fan-out provenance writer of the telemetry harness, add_event calls
\* overlapping.
NextProv ==
    \/ \E p \in AddSlots, event \in Events : Fanout_add_event(p, event)
    \/ \E p \in AddSlots : Fanout_memory(p)
    \/ \E p \in AddSlots : Jsonl_lock(p)
    \/ \E p \in AddSlots : Jsonl_write_line(p)
    \/ \E p \in AddSlots : Jsonl_write_newline(p)

SpecProv == Init /\ [][NextProv]_vars

\* The runner builds the runtime from its configuration and the agent's
\* policy.json, then calls are dispatched one at a time.
InitBuild ==
    /\ agent_dir \in {[policy_json |-> file] : file \in PolicyFiles}
    /\ runner \in {NewRunner(config) : config \in RunnerConfigs}
    /\ pipeline = <<>>
    /\ policy = from_mode("DefaultDeny")
    /\ harness_policy = NotLoaded
    /\ InitSnapshot
    /\ InitTools
    /\ mode = "FailOpen"
    /\ wallet = from_hex
    /\ InitPipe /\ InitWallet /\ InitProv

NextBuild ==
    \/ BuildRuntime
    \/ \E ctx \in BuildContexts : StartDispatch(1, ctx)
    \/ DispatchStep(1)

SpecBuild == InitBuild /\ [][NextBuild]_vars

\* The two programs that read an agent's policy.json: the runner while it
\* builds the runtime, and the telemetry harness.
NextLoad ==
    \/ BuildRuntime
    \/ Harness_load_policy

SpecLoad == InitBuild /\ [][NextLoad]_vars

\* The events a snapshot is made from: outcomes of the harness's tools, a
\* started call without an outcome, a name with a leading space, a name in
\* the bundle/local form, and an event that is not a tool call.
SnapshotEvents ==
    {SnapEvent("ToolCall", "paper_trading", Some(TRUE), Some(3)),
     SnapEvent("ToolCall", "paper_trading", Some(FALSE), Some(5)),
     SnapEvent("ToolCall", "paper_trading", NoneBool, None),
     SnapEvent("ToolCall", "odos_swap", Some(TRUE), Some(4)),
     SnapEvent("ToolCall", "odos_swap", Some(FALSE), None),
     SnapEvent("ToolCall", " paper_trading", Some(TRUE), None),
     SnapEvent("ToolCall", TOOL_PAPER_TRADING, Some(TRUE), Some(3)),
     SnapEvent("LlmCall", "", NoneBool, None)}

\* The harness makes snapshots from one list of events.
InitSnap ==
    /\ snap_events \in UNION {[1..n -> SnapshotEvents] : n \in 0..MaxSnapEvents}
    /\ snapshot_file = NoFile
    /\ snapshots = <<>>
    /\ agent_dir = [policy_json |-> MissingFile]
    /\ runner = BuiltRunner(DefaultConfig)
    /\ pipeline = InstalledGuards(DefaultConfig.audit_log_path)
    /\ harness_policy = NotLoaded
    /\ policy = PipelinePolicy
    /\ mode = "FailOpen"
    /\ wallet = from_hex
    /\ InitPipe /\ InitWallet /\ InitProv /\ InitTools

NextSnap == Harness_write_snapshot

SpecSnap == InitSnap /\ [][NextSnap]_vars

\* The state of everything but the gateway, the paper portfolio and the RPC
\* configuration, as the default runtime starts.
InitOthers ==
    /\ agent_dir = [policy_json |-> MissingFile]
    /\ runner = BuiltRunner(DefaultConfig)
    /\ pipeline = InstalledGuards(DefaultConfig.audit_log_path)
    /\ harness_policy = NotLoaded
    /\ InitSnapshot
    /\ policy = PipelinePolicy
    /\ mode = "FailOpen"
    /\ wallet = from_hex
    /\ InitPipe /\ InitWallet /\ InitProv

\* The hints of the modelled requests: the defaults, a forced fresh query,
\* and a TTL of 30 s.
HintInputs ==
    {QueryRoutingHints(None, FALSE), QueryRoutingHints(None, TRUE),
     QueryRoutingHints(Some(1), FALSE)}

\* Queries through one gateway, one at a time, while time passes.
InitGw ==
    /\ gw_hasher \in [Triples -> KeySpace]
    /\ InitGateway /\ InitPaper /\ InitRpc /\ InitLoop /\ InitOthers

NextGw ==
    \/ \E triple \in Triples, hints \in HintInputs : Gateway_query_with_routing(triple, hints)
    \/ Gateway_response
    \/ Gateway_clean_expired_cache
    \/ Gateway_tick

SpecGw == InitGw /\ [][NextGw]_vars

\* The amounts of the modelled swaps.
SwapAmounts == {0, 1, MaxAmount}

\* The initial balances: an initial_usd is a u64 number of micro-dollars, far
\* below the largest amount.
InitialUsdc == {0, 1}

\* Swaps on a new paper portfolio.
InitSwaps ==
    /\ paper_holdings \in {NewHoldings(usdc_amount) : usdc_amount \in InitialUsdc}
    /\ paper_trades = <<>>
    /\ paper_result = NoSwap
    /\ paper_calls = 0
    /\ InitSharedPaper
    /\ paper_start = paper_holdings
    /\ gw_hasher = [t \in Triples |-> "k1"]
    /\ InitGateway /\ InitRpc /\ InitLoop /\ InitOthers

NextSwaps ==
    \E input_token \in Tokens, output_token \in Tokens,
       input_amount \in SwapAmounts, expected_output \in SwapAmounts :
        Paper_execute_swap(input_token, output_token, input_amount, expected_output)

SpecSwaps == InitSwaps /\ [][NextSwaps]_vars

\* The environments from_env may find: each variable unset or set.
RpcEnvs ==
    [EnvVars -> {NoneStr, Some("set")}]

\* The RPC configuration is read from the environment.
InitRpcEnv ==
    /\ rpc_env \in RpcEnvs
    /\ rpc_config = NoRpcConfig
    /\ gw_hasher = [t \in Triples |-> "k1"]
    /\ InitGateway /\ InitPaper /\ InitLoop /\ InitOthers

NextRpc == Rpc_from_env

SpecRpc == InitRpcEnv /\ [][NextRpc]_vars

\* The runner drives the script runtime while other tasks ask for the bridge.
InitDrive ==
    /\ bridge_lock = Free
    /\ loop_pc = "config"
    /\ loop_dry_run \in BOOLEAN
    /\ polls = 0
    /\ tasks = [t \in OtherTasks |-> "idle"]
    /\ bridge_uses = 0
    /\ gw_hasher = [t \in Triples |-> "k1"]
    /\ InitGateway /\ InitPaper /\ InitRpc /\ InitOthers

NextDrive ==
    \/ Loop_build_config
    \/ Loop_lock
    \/ Loop_evaluate
    \/ Loop_poll
    \/ Loop_wake
    \/ \E t \in OtherTasks : Task_request(t)
    \/ \E t \in OtherTasks : Task_acquire(t)
    \/ \E t \in OtherTasks : Task_release(t)

SpecDrive == InitDrive /\ [][NextDrive]_vars

\* The same, every step that stays possible being taken in the end: the
\* scheduler runs every task that can run, and the lock is handed to a waiter
\* when it is free.
FairSpecDrive ==
    /\ SpecDrive
    /\ WF_vars(Loop_build_config) /\ WF_vars(Loop_lock) /\ WF_vars(Loop_evaluate)
    /\ WF_vars(Loop_poll) /\ WF_vars(Loop_wake)
    /\ \A t \in OtherTasks : SF_vars(Task_acquire(t)) /\ WF_vars(Task_release(t))

\* Two callers swap on one shared paper-trading state.
InitShared ==
    /\ paper_start \in {NewHoldings(usdc_amount) : usdc_amount \in InitialUsdc}
    /\ paper_holdings = paper_start
    /\ paper_trades = <<>>
    /\ paper_result = NoSwap
    /\ paper_calls = 0
    /\ InitSharedPaper
    /\ gw_hasher = [t \in Triples |-> "k1"]
    /\ InitGateway /\ InitRpc /\ InitLoop /\ InitOthers

NextShared ==
    \/ \E c \in SwapSlots, input_token \in Tokens, output_token \in Tokens,
          input_amount \in SwapAmounts, expected_output \in SwapAmounts :
           Swap_call(c, SwapArgs(input_token, output_token, input_amount, expected_output))
    \/ \E c \in SwapSlots : Swap_lock(c)
    \/ \E c \in SwapSlots : Swap_check(c)
    \/ \E c \in SwapSlots : Swap_debit(c)
    \/ \E c \in SwapSlots : Swap_credit(c)
    \/ \E c \in SwapSlots : Swap_record(c)
    \/ \E c \in SwapSlots : Swap_return(c)

SpecShared == InitShared /\ [][NextShared]_vars

\* Overlapping add_event calls, any of which may be cancelled.
NextCancel ==
    \/ \E p \in AddSlots, event \in Events : Fanout_add_event(p, event)
    \/ \E p \in AddSlots : Fanout_memory(p)
    \/ \E p \in AddSlots : Jsonl_lock(p)
    \/ \E p \in AddSlots : Jsonl_write_line(p)
    \/ \E p \in AddSlots : Jsonl_write_newline(p)
    \/ \E p \in AddSlots : Cancel_add_event(p)

SpecCancel == Init /\ [][NextCancel]_vars

\* Overlapping dispatches whose provenance events go through the fan-out
\* writer to the memory store and the JSONL file.
NextEvents ==
    \/ \E p \in RaceSlots : Emit_ToolCallStarted(p)
    \/ \E p \in RaceSlots : Abort_dispatch(p)
    \/ \E p \in RaceSlots : Emit_ToolCallCompleted(p)
    \/ \E p \in RaceSlots : Finish_dispatch(p)
    \/ \E p \in RaceSlots : Fanout_memory(p)
    \/ \E p \in RaceSlots : Jsonl_lock(p)
    \/ \E p \in RaceSlots : Jsonl_write_line(p)
    \/ \E p \in RaceSlots : Jsonl_write_newline(p)

SpecEvents == Init /\ [][NextEvents]_vars

\* ---------------------------------------------------------------- properties

\* The decision guard g's request hook returned for dispatch d, if it ran.
HasDecision(d, g) == \E i \in 1..Len(calls[d].decs) : calls[d].decs[i].guard = g
DecisionOf(d, g) ==
    calls[d].decs[CHOOSE i \in 1..Len(calls[d].decs) : calls[d].decs[i].guard = g]

\* C1: the first guard whose request hook returns Block ends the dispatch: the
\* request hooks run in the order Policy, SpendLimit, SlippageGuard, Cooldown,
\* Audit, no request hook runs after a Block, the tool body does not run and
\* no completion hook runs.
C1_FirstBlockEndsDispatch ==
    \A d \in Slots :
        /\ \A i \in 1..Len(calls[d].decs) :
              calls[d].decs[i].guard =
                  <<"Policy", "SpendLimit", "SlippageGuard", "Cooldown", "Audit">>[i]
        /\ \A i \in 1..Len(calls[d].decs) :
              ~calls[d].decs[i].allow =>
                  /\ i = Len(calls[d].decs)
                  /\ calls[d].stage = "blocked"
                  /\ calls[d].result = "none"
                  /\ calls[d].comps = <<>>

\* A dispatch the policy guard allowed and the spend limit guard blocked.
C1_Witness ==
    \E d \in Slots :
        /\ Len(calls[d].decs) = 2
        /\ calls[d].decs[1].allow
        /\ ~calls[d].decs[2].allow
        /\ calls[d].stage = "blocked"

\* C2: the sum of the trades recorded for the current UTC day never exceeds
\* max_daily, however the dispatches interleave.
C2_DailyTotalWithinLimit == daily.total <= MaxDaily

\* C3: every ToolCall and LlmCall event in the memory store and in the JSONL
\* file carries the redacted form of its args or prompt, never the raw content.
C3_SinksHoldRedacted ==
    /\ \A i \in 1..Len(mem_store) :
          mem_store[i].data.kind \in {"ToolCall", "LlmCall"} =>
              mem_store[i].data.payload.redacted /\ mem_store[i].data.payload.body = ""
    /\ \A i \in 1..Len(jsonl) :
          (jsonl[i].kind = "line" /\ jsonl[i].event.data.kind \in {"ToolCall", "LlmCall"}) =>
              jsonl[i].event.data.payload.redacted /\ jsonl[i].event.data.payload.body = ""

\* C4: once a prepare_swap of the DEX swap tool has completed successfully at
\* instant last, the cooldown guard blocks a prepare_swap request arriving
\* before last + cooldown, reporting the whole seconds remaining, and allows
\* one arriving at or after it.
C4_CooldownBlocksUntilElapsed ==
    [][\A d \in Slots :
          (/\ AtRequest(d, "Cooldown")
           /\ calls'[d] # calls[d]
           /\ calls[d].ctx.tool_name = TOOL_ODOS_SWAP
           /\ calls[d].ctx.args.action = "prepare_swap"
           /\ last_ok.some)
          => LET dec == calls'[d].decs[Len(calls'[d].decs)]
             IN  IF now < last_ok.v + CooldownSecs
                 THEN ~dec.allow /\ dec.value = last_ok.v + CooldownSecs - now
                 ELSE dec.allow]_vars

\* C5: every signature wallet_sign_tx returns is for a transaction the
\* simulator has already simulated.
C5_SimulatedBeforeSigned ==
    \A i \in 1..Len(sign_log) :
        (sign_log[i].tool = TOOL_WALLET_SIGN_TX /\ sign_log[i].result.ok) =>
            \E r \in sim_log : TxHash(r.tx) = sign_log[i].result.tx_hash

\* C6: wallet_sign_tx signs only when exactly one of tx_hash and tx_bytes is
\* supplied; with both or neither it returns an InvalidArgument error.
C6_SignsOnlyWithExactlyOneInput ==
    \A i \in 1..Len(sign_log) :
        sign_log[i].tool = TOOL_WALLET_SIGN_TX =>
            LET exactly_one == sign_log[i].args.tx_hash.some # sign_log[i].args.tx_bytes.some
            IN  /\ sign_log[i].result.ok => exactly_one
                /\ ~exactly_one =>
                      ~sign_log[i].result.ok /\ sign_log[i].result.error = "InvalidArgument"

\* C7: a wallet in dry-run mode never yields a signature: every signing call
\* made with it returns an error.
C7_DryRunNeverSigns ==
    wallet.dry_run => \A i \in 1..Len(sign_log) : ~sign_log[i].result.ok

\* C8: for a prepare_swap of the DEX swap tool with estimated value v, the
\* spend limit guard returns the per-trade Block exactly when v > max_per_trade,
\* whatever the daily total is.
C8_PerTradeBlockIffAboveLimit ==
    \A d \in Slots :
        (/\ HasDecision(d, "SpendLimit")
         /\ SpendLimitApplies(calls[d].ctx)
         /\ estimate_trade_value(calls[d].ctx.args).some)
        => LET v == estimate_trade_value(calls[d].ctx.args).v
               dec == DecisionOf(d, "SpendLimit")
           IN  (v > MaxPerTrade) <=>
                   (/\ ~dec.allow /\ dec.why = "per_trade"
                    /\ dec.value = v /\ dec.limit = MaxPerTrade)

\* A trade above the per-trade limit blocked while the day's total is not zero.
C8_Witness ==
    /\ daily.total > 0
    /\ HasDecision(1, "SpendLimit")
    /\ DecisionOf(1, "SpendLimit").why = "per_trade"
    /\ calls[1].stage = "blocked"

\* C9: when no USD estimate can be formed for a prepare_swap, FailOpen allows
\* the trade and FailClosed blocks it; under FailClosed a trade with an
\* explicit amount_usd within the per-trade and daily limits is allowed.
C9_UnknownValueFollowsMode ==
    \A d \in Slots :
        (Len(calls[d].decs) = 2 /\ SpendLimitApplies(calls[d].ctx))
        => LET args == calls[d].ctx.args
               dec == calls[d].decs[2]
           IN  /\ (~estimate_trade_value(args).some /\ mode = "FailOpen") => dec.allow
               /\ (~estimate_trade_value(args).some /\ mode = "FailClosed") =>
                      ~dec.allow /\ dec.why = "no_estimate"
               /\ (/\ mode = "FailClosed"
                   /\ args.amount_usd.some
                   /\ args.amount_usd.v <= MaxPerTrade
                   /\ daily.total + args.amount_usd.v <= MaxDaily) => dec.allow

\* Under FailClosed, after a trade was recorded, a prepare_swap without an
\* estimate is blocked.
C9_Witness ==
    /\ mode = "FailClosed"
    /\ Len(daily.trades) > 0
    /\ Len(calls[1].decs) = 2
    /\ calls[1].decs[2].why = "no_estimate"
    /\ calls[1].ctx.args.amount_usd.some = FALSE

\* C10: the policy guard allows a tool exactly when the rule for the tool says
\* so, and when no rule exists exactly when the default mode is AllowAll.
C10_PolicyFollowsRuleThenMode ==
    \A d \in Slots :
        HasDecision(d, "Policy")
        => LET tool == calls[d].ctx.tool_name
               dec == DecisionOf(d, "Policy")
           IN  IF tool \in DOMAIN policy.rules
               THEN dec.allow = policy.rules[tool].allowed
               ELSE dec.allow = (policy.mode = "AllowAll")

\* Under AllowAll a tool with a deny rule is blocked.
C10_Witness ==
    /\ policy.mode = "AllowAll"
    /\ HasDecision(1, "Policy")
    /\ calls[1].ctx.tool_name \in DOMAIN policy.rules
    /\ ~policy.rules[calls[1].ctx.tool_name].allowed
    /\ ~DecisionOf(1, "Policy").allow

\* C11: within one dispatch the request hooks run one after another in the
\* order Policy, SpendLimit, SlippageGuard, Cooldown, Audit, the tool body runs
\* after the last installed request hook, and the completion hooks run in the
\* same order after the body returned; this holds for every configuration the
\* runtime is built from.
C11_HooksRunInInstallOrder ==
    \A d \in Slots :
        /\ \A i \in 1..Len(calls[d].decs) :
              calls[d].decs[i].guard =
                  <<"Policy", "SpendLimit", "SlippageGuard", "Cooldown", "Audit">>[i]
        /\ \A i \in 1..Len(calls[d].comps) :
              calls[d].comps[i] =
                  <<"Policy", "SpendLimit", "SlippageGuard", "Cooldown", "Audit">>[i]
        /\ calls[d].result # "none" =>
              /\ Len(calls[d].decs) = Len(pipeline)
              /\ \A i \in 1..Len(calls[d].decs) : calls[d].decs[i].allow
        /\ calls[d].comps # <<>> => calls[d].result # "none"
        /\ calls[d].stage = "done" => Len(calls[d].comps) = Len(pipeline)

\* A dispatch that went through all five request hooks, the body and all five
\* completion hooks in a runtime built from a configuration other than the
\* default one.
C11_Witness ==
    \E d \in Slots :
        /\ runner.status = "built"
        /\ runner.config # DefaultConfig
        /\ Len(pipeline) = 5
        /\ calls[d].stage = "done"
        /\ Len(calls[d].decs) = 5
        /\ Len(calls[d].comps) = 5

\* C12: the cooldown guard's last-trade instant only advances: in every
\* interleaving of overlapping dispatches a step never clears a stored instant
\* and never replaces it by an earlier one.
C12_LastTradeOnlyAdvances ==
    [][last_trade.some => (last_trade'.some /\ last_trade'.v >= last_trade.v)]_vars

\* Two overlapping successful prepare_swap dispatches have both run the
\* cooldown completion hook, the later one at a later instant.
C12_Witness ==
    /\ \A d \in RaceSlots :
          /\ CooldownApplies(calls[d].ctx)
          /\ calls[d].result = "ok"
          /\ calls[d].stage = "complete"
          /\ pipeline[calls[d].idx] = "Audit"
    /\ last_trade.some
    /\ last_trade.v > 0

\* C13: the cooldown guard's last-trade instant changes only in the cooldown
\* completion hook of a prepare_swap call that returned Ok; request hooks, the
\* tool body, completions of failed calls, of quotes and of other tools, and
\* the passing of time leave it unchanged.
C13_LastTradeChangesOnlyOnSuccess ==
    [][last_trade' # last_trade =>
          \E d \in Slots :
              /\ AtComplete(d, "Cooldown")
              /\ calls'[d] # calls[d]
              /\ calls[d].ctx.tool_name = LegacyOdosName
              /\ calls[d].ctx.args.action = "prepare_swap"
              /\ calls[d].result = "ok"]_vars

\* The cooldown completion hook of a successful prepare_swap has stored the
\* instant of its completion, after time has passed.
C13_Witness ==
    \E d \in Slots :
        /\ calls[d].ctx = Plain(LegacyOdosName, "prepare_swap")
        /\ calls[d].result = "ok"
        /\ calls[d].stage = "done"
        /\ last_trade = Some(now)
        /\ now > 0

\* C14: once the UTC date has changed, the first read of the daily total (the
\* request hook's current_total(), made before any write of the new day) sees
\* 0 and decides with 0, and the same step empties the list of trade amounts
\* and moves the date; in no state is the list empty while the total is not 0.
C14_NewDayResetsTotalAndTrades ==
    /\ [](daily.trades = <<>> => daily.total = 0)
    /\ [][\A d \in Slots :
             (/\ AtRequest(d, "SpendLimit")
              /\ calls'[d] # calls[d]
              /\ ReachesDailyCheck(MaxPerTrade, calls[d].ctx)
              /\ daily.date # today)
             => /\ daily' = [total |-> 0, date |-> today, trades |-> <<>>]
                /\ calls'[d].decs[Len(calls'[d].decs)] =
                       SpendLimitDecision(mode, MaxPerTrade, MaxDaily, 0, calls[d].ctx)]_vars

\* The date has changed since trades were recorded, and the request hook of a
\* prepare_swap within the per-trade limit is about to read the daily total.
C14_Witness ==
    \E d \in Slots :
        /\ AtRequest(d, "SpendLimit")
        /\ ReachesDailyCheck(MaxPerTrade, calls[d].ctx)
        /\ daily.date # today
        /\ daily.total > 0
        /\ daily.trades # <<>>

\* C15: whatever arguments the agent supplies, amount_usd included, the
\* recorded daily total is never negative and never decreases while the
\* recorded UTC date stays the same.
C15_DailyTotalNeverNegativeNorDecreasing ==
    /\ [](daily.total >= 0)
    /\ [][daily'.date = daily.date => daily'.total >= daily.total]_vars

\* C16: a call whose action is not prepare_swap, or whose tool is not the
\* swap tool under either name the guards know it by, is allowed by the spend
\* limit guard and by the cooldown guard, whatever its amount_usd, the daily
\* total and the time since the last trade.
C16_QuotesPassStatefulGuards ==
    \A d \in Slots : \A i \in 1..Len(calls[d].decs) :
        (/\ calls[d].decs[i].guard \in {"SpendLimit", "Cooldown"}
         /\ \/ calls[d].ctx.args.action # "prepare_swap"
            \/ calls[d].ctx.tool_name \notin {TOOL_ODOS_SWAP, LegacyOdosName})
        => calls[d].decs[i].allow

\* A quote of the swap tool for more than the daily limit has passed the spend
\* limit guard and the cooldown guard inside the cooldown window.
C16_Witness ==
    \E d \in Slots :
        /\ calls[d].ctx.tool_name = LegacyOdosName
        /\ calls[d].ctx.args.action = "quote"
        /\ calls[d].ctx.args.amount_usd.v > MaxDaily
        /\ Len(calls[d].decs) >= 4
        /\ calls[d].decs[2].allow
        /\ calls[d].decs[4].allow
        /\ last_trade.some
        /\ now < last_trade.v + CooldownSecs

\* C17: for every call to the DEX swap tool the slippage guard blocks if and
\* only if slippage_percent, taken as 0.5 when absent, is greater than the
\* configured maximum; a call to any other tool is allowed.
C17_SlippageBlocksIffAboveMax ==
    \A d \in Slots : \A i \in 1..Len(calls[d].decs) :
        calls[d].decs[i].guard = "SlippageGuard" =>
            LET args == calls[d].ctx.args
                slippage == IF args.slippage_percent.some THEN args.slippage_percent.v
                            ELSE DefaultSlippageTenths
            IN  IF calls[d].ctx.tool_name = TOOL_ODOS_SWAP
                THEN ~calls[d].decs[i].allow <=> slippage > MaxSlippageTenths
                ELSE calls[d].decs[i].allow

\* C18: after a policy file has been loaded, by the runner or by the harness,
\* every rule stored in the resulting PolicyConfig has a valid (bundle/local)
\* tool name, and every rule of the file with a valid tool name is stored,
\* with the decision of the last such rule, whatever other rules the file has.
C18_StoredRulesValidOthersKept ==
    LET file == agent_dir.policy_json
        loaded == file.exists /\ file.readable /\ file.parses
        Holds(stored) ==
            /\ \A t \in DOMAIN stored : is_valid_tool_name(t)
            /\ \A i \in 1..Len(file.rules) :
                  is_valid_tool_name(file.rules[i].tool) =>
                      /\ file.rules[i].tool \in DOMAIN stored
                      /\ \E j \in i..Len(file.rules) :
                            /\ file.rules[j].tool = file.rules[i].tool
                            /\ stored[file.rules[i].tool].allowed = file.rules[j].allowed
                            /\ \A k \in (j + 1)..Len(file.rules) :
                                  file.rules[k].tool # file.rules[i].tool
    IN  /\ (runner.status = "built" /\ loaded) => Holds(policy.rules)
        /\ (harness_policy.loaded /\ harness_policy.ok /\ loaded) => Holds(harness_policy.config.rules)

\* C19: when policy.json is missing and require_file is set, the runner fails
\* with a configuration error, installs nothing and dispatches nothing; when
\* it is missing and require_file is not set, the built runtime has the
\* configured fallback mode and no rules; and a file whose mode string is
\* neither "default-deny" nor "allow-all" gives the fallback mode.
C19_MissingFileAndUnknownMode ==
    LET file == agent_dir.policy_json
        config == runner.config
    IN  /\ (~file.exists /\ config.policy.require_file) =>
              /\ runner.status # "built"
              /\ runner.status = "failed" => runner.error = "Config"
              /\ pipeline = <<>>
              /\ \A d \in Slots : calls[d] = IdleCall
        /\ (~file.exists /\ ~config.policy.require_file /\ runner.status = "built") =>
              /\ policy.mode = config.policy.default_mode
              /\ DOMAIN policy.rules = {}
        /\ (/\ file.exists /\ file.readable /\ file.parses
            /\ file.mode \notin {"default-deny", "allow-all"}
            /\ runner.status = "built") =>
              policy.mode = config.policy.default_mode

\* The runner has failed to build over a missing policy.json that its
\* configuration requires.
C19_Witness ==
    /\ ~agent_dir.policy_json.exists
    /\ runner.config.policy.require_file
    /\ runner.status = "failed"
    /\ runner.error = "Config"

\* C20: in the memory store and in the JSONL file, every ToolCallCompleted
\* event of a dispatch comes after the ToolCallStarted event of the same
\* dispatch, however the dispatches and their writes interleave.
C20_StartedBeforeCompleted ==
    /\ \A j \in 1..Len(mem_store) :
          mem_store[j].event_type = "ToolCallCompleted" =>
              \E i \in 1..(j - 1) :
                  /\ mem_store[i].event_type = "ToolCallStarted"
                  /\ mem_store[i].call_id = mem_store[j].call_id
    /\ \A j \in 1..Len(jsonl) :
          (jsonl[j].kind = "line" /\ jsonl[j].event.event_type = "ToolCallCompleted") =>
              \E i \in 1..(j - 1) :
                  /\ jsonl[i].kind = "line"
                  /\ jsonl[i].event.event_type = "ToolCallStarted"
                  /\ jsonl[i].event.call_id = jsonl[j].event.call_id

\* Two overlapping dispatches: both ToolCallStarted events reached the memory
\* store before either ToolCallCompleted, and the JSONL file holds the
\* completion of both.
C20_Witness ==
    /\ Len(mem_store) >= 4
    /\ mem_store[1].event_type = "ToolCallStarted"
    /\ mem_store[2].event_type = "ToolCallStarted"
    /\ \A k \in 1..2 :
          \E j \in 1..Len(jsonl) :
              /\ jsonl[j].kind = "line"
              /\ jsonl[j].event.event_type = "ToolCallCompleted"
              /\ jsonl[j].event.call_id = k

\* C21: the JSONL file is a sequence of whole lines, each one serialized event
\* followed by its newline, however many add_event calls overlap: a line is
\* followed by a newline, or is the last entry while its writer still holds
\* the file mutex and is about to write the newline; and every newline ends a
\* line.
C21_JsonlWholeLines ==
    \A i \in 1..Len(jsonl) :
        /\ jsonl[i].kind = "line" =>
              \/ i < Len(jsonl) /\ jsonl[i + 1].kind = "newline"
              \/ /\ i = Len(jsonl)
                 /\ jsonl_lock \in AddSlots
                 /\ adds[jsonl_lock].pc = "newline"
        /\ jsonl[i].kind = "newline" => (i > 1 /\ jsonl[i - 1].kind = "line")

\* C22: cancelling an add_event call at an await point leaves no truncated
\* line behind: the step that cancels a call holding the file mutex does not
\* leave that call's line as an unterminated last entry of the file, and no
\* step appends an event to a file whose last entry is an unterminated line.
C22_CancelLeavesWholeLines ==
    [][/\ \A p \in AddSlots :
             (/\ adds[p].pc \in {"memory", "jsonl", "line", "newline"}
              /\ adds'[p].result = "Cancelled"
              /\ jsonl_lock = p)
             => ~(/\ jsonl' # <<>>
                  /\ jsonl'[Len(jsonl')] = Line(sanitize_event(FanoutEventFor(adds[p].event)))
                  /\ adds[p].pc = "newline")
       /\ (Len(jsonl') > Len(jsonl) /\ jsonl'[Len(jsonl')].kind = "line")
             => (jsonl = <<>> \/ jsonl[Len(jsonl)].kind = "newline")]_vars

\* C23: a fan-out add_event hands the event to its children in list order,
\* the memory store first and the JSONL writer second; it returns Ok only if
\* both took the event; and when the first child fails it returns that failure
\* and the JSONL writer never receives the event.
C23_FanoutInOrderFailsFast ==
    /\ [](\A p \in AddSlots :
            /\ adds[p].pc \in {"jsonl", "line", "newline", "ok"} =>
                  \E i \in 1..Len(mem_store) : mem_store[i] = FanoutEventFor(adds[p].event)
            /\ adds[p].pc = "ok" =>
                  \E i \in 1..(Len(jsonl) - 1) :
                      /\ jsonl[i] = Line(sanitize_event(FanoutEventFor(adds[p].event)))
                      /\ jsonl[i + 1] = Newline
            /\ adds[p].result = "Memory" => adds[p].pc = "err")
    /\ [][\A p \in AddSlots :
             (adds[p].pc = "memory" /\ adds'[p].result = "Memory")
             => /\ adds'[p].pc = "err"
                /\ mem_store' = mem_store
                /\ jsonl' = jsonl
                /\ jsonl_lock' = jsonl_lock]_vars

\* The first child has failed for one call, which returned that failure with
\* nothing in the file, while another call went through both children.
C23_Witness ==
    \E p \in AddSlots, q \in AddSlots :
        /\ adds[p].pc = "err"
        /\ adds[p].result = "Memory"
        /\ adds[q].pc = "ok"
        /\ Len(mem_store) = 1
        /\ Len(jsonl) = 2

\* The ToolCall events of the list that ToolName::new gives the name tool,
\* with the given outcome.
EventsOfTool(tool, success) ==
    {i \in DOMAIN snap_events :
        /\ snap_events[i].kind = "ToolCall"
        /\ ToolName_new(snap_events[i].tool_name) = Some(tool)
        /\ snap_events[i].success = success}

\* The list has no ToolCall event under a name ToolName::new accepts.
YieldsNoEntries ==
    \A i \in DOMAIN snap_events :
        snap_events[i].kind = "ToolCall" => ~ToolName_new(snap_events[i].tool_name).some

\* C24: a snapshot from an event list that yields no tool-call entry fails
\* with the no-tool-call-telemetry error and writes no snapshot file, and
\* every snapshot file written has at least one tool-call entry.
C24_EmptySnapshotFails ==
    /\ YieldsNoEntries =>
          /\ ~snapshot_file.exists
          /\ \A i \in DOMAIN snapshots :
                ~snapshots[i].ok /\ snapshots[i].err = "No tool call telemetry available"
    /\ snapshot_file.exists => Len(snapshot_file.snapshot.tool_calls) >= 1

\* A non-empty list without a countable event was refused.
C24_Witness ==
    /\ snap_events # <<>>
    /\ YieldsNoEntries
    /\ snapshots # <<>>
    /\ ~snapshots[1].ok

RECURSIVE SumOf(_, _)
\* The sum of one field over the tool entries of a snapshot.
SumOf(entries, field) ==
    IF entries = <<>> THEN 0 ELSE Head(entries)[field] + SumOf(Tail(entries), field)

\* C25: in every snapshot each tool entry has calls = successes + failures,
\* successes and failures being the numbers of that tool's ToolCall events
\* with success true and false, and the totals of calls, successes and
\* failures are the sums of the per-tool values.
C25_SnapshotCountsAddUp ==
    \A i \in DOMAIN snapshots :
        LET snapshot == snapshots[i].snapshot
        IN  /\ \A k \in DOMAIN snapshot.tool_calls :
                  LET entry == snapshot.tool_calls[k]
                  IN  /\ entry.calls = entry.successes + entry.failures
                      /\ entry.successes = Cardinality(EventsOfTool(entry.tool, Some(TRUE)))
                      /\ entry.failures = Cardinality(EventsOfTool(entry.tool, Some(FALSE)))
            /\ snapshot.totals.tool_calls = SumOf(snapshot.tool_calls, "calls")
            /\ snapshot.totals.tool_successes = SumOf(snapshot.tool_calls, "successes")
            /\ snapshot.totals.tool_failures = SumOf(snapshot.tool_calls, "failures")

\* A written snapshot of two tools, one of them with a success and a failure.
C25_Witness ==
    /\ snapshot_file.exists /\ snapshot_file.complete
    /\ Len(snapshot_file.snapshot.tool_calls) = 2
    /\ \E k \in DOMAIN snapshot_file.snapshot.tool_calls :
          /\ snapshot_file.snapshot.tool_calls[k].successes >= 1
          /\ snapshot_file.snapshot.tool_calls[k].failures >= 1

\* C26: two snapshots made from the same event list have the same tool-call
\* totals and the same schema hash, whatever order the aggregation map was
\* iterated in.
C26_SnapshotTotalsDeterministic ==
    \A i, j \in DOMAIN snapshots :
        /\ snapshots[i].snapshot.totals = snapshots[j].snapshot.totals
        /\ snapshots[i].snapshot.schema_hash = snapshots[j].snapshot.schema_hash

\* Two snapshots of the same list whose map was iterated in different orders
\* over tools with different counts.
C26_Witness ==
    /\ Len(snapshots) >= 2
    /\ snapshots[1].ok /\ snapshots[2].ok
    /\ snapshots[1].snapshot.tool_calls # snapshots[2].snapshot.tool_calls
    /\ snapshots[1].snapshot.tool_calls[1].calls # snapshots[1].snapshot.tool_calls[2].calls

\* C27: the harness's ToolName::new and the policy loader's validator accept
\* the same tool names, those of the form bundle/local with both parts
\* non-empty and drawn from [a-z0-9_]: once the runner and the harness have
\* both loaded a policy file, a rule of the file is stored by the one exactly
\* if it is stored by the other, and a rule for a registered tool name is
\* stored by both.
C27_ValidatorsAcceptSameNames ==
    LET file == agent_dir.policy_json
    IN  (/\ file.exists /\ file.readable /\ file.parses
         /\ runner.status = "built"
         /\ harness_policy.loaded /\ harness_policy.ok) =>
            \A i \in 1..Len(file.rules) :
                /\ file.rules[i].tool \in DOMAIN policy.rules
                      <=> file.rules[i].tool \in DOMAIN harness_policy.config.rules
                /\ file.rules[i].tool \in {TOOL_ODOS_SWAP, TOOL_PAPER_TRADING} =>
                      file.rules[i].tool \in DOMAIN harness_policy.config.rules

\* C28: the gateway returns a result marked cached only if the request did
\* not set force_fresh and an entry for the same (subgraph, query, variables)
\* was stored by an earlier successful query less than its TTL ago (the
\* cache_ttl_secs of the storing request, else the default); a force_fresh
\* request always gets its result from a new outbound query.
C28_CachedOnlyFreshEntry ==
    /\ gw_result.cached =>
          /\ ~gw_result.hints.force_fresh
          /\ \E s \in gw_stores :
                /\ s.triple = gw_result.triple
                /\ s.at <= gw_result.at
                /\ gw_result.at - s.at < s.ttl
    /\ (gw_result.some /\ gw_result.hints.force_fresh) => gw_result.outbound

\* The triples queried so far that share a cache key with another of them.
CollidingTriples ==
    LET used == {s.triple : s \in gw_stores} \cup
                (IF gw_result.some THEN {gw_result.triple} ELSE {})
    IN  {t \in used : \E u \in used : u # t /\ cache_key(gw_hasher, u) = cache_key(gw_hasher, t)}

\* As long as no two queried triples share a cache key, a cached result is
\* as C28 says.
CachedOnlyFreshEntryWithoutCollision ==
    CollidingTriples = {} => C28_CachedOnlyFreshEntry

\* What an execute_swap step does to the portfolio according to C29.
SwapStepAsClaimed ==
    LET r == paper_result'
        had_in == Holding(paper_holdings, r.input_token)
        had_out == Holding(paper_holdings, r.output_token)
    IN  IF r.input_amount > had_in
        THEN /\ ~r.ok /\ r.err = "Insufficient balance"
             /\ paper_holdings' = paper_holdings
             /\ paper_trades' = paper_trades
        ELSE /\ r.ok
             /\ Len(paper_trades') = Len(paper_trades) + 1
             /\ IF r.input_token # r.output_token
                THEN /\ Holding(paper_holdings', r.input_token) = had_in - r.input_amount
                     /\ Holding(paper_holdings', r.output_token) = had_out + r.expected_output
                ELSE Holding(paper_holdings', r.input_token)
                        = had_in - r.input_amount + r.expected_output

\* C29: an execute_swap whose input amount exceeds the holding of the input
\* token returns the insufficient-balance error and changes nothing; every
\* other execute_swap decreases the input holding by the input amount,
\* increases the output holding by the expected output (for a swap of a token
\* into itself, both on the one holding) and appends exactly one trade.
C29_SwapDebitsAndCredits ==
    [][paper_calls' = paper_calls + 1 => SwapStepAsClaimed]_vars

\* The swap just made credited a holding that stayed within the amount type.
SwapWithinRange ==
    LET r == paper_result'
    IN  Holding(paper_holdings, r.output_token) + r.expected_output <= MaxAmount

\* An execute_swap that does not overflow the output holding is as C29 says.
SwapDebitsAndCreditsWithinRange ==
    [][(paper_calls' = paper_calls + 1 /\ SwapWithinRange) => SwapStepAsClaimed]_vars

\* The URL the per-chain reading gives a chain: the explicit URL, else the
\* URL the configured provider key builds for it, else the public endpoint.
PerChainResolution(env, c) ==
    IF env[ChainVar[c]].some THEN <<env[ChainVar[c]].v>>
    ELSE IF c \in DOMAIN ProviderUrls(env) THEN ProviderUrls(env)[c]
    ELSE public_rpcs[c]

\* C30: for every supported chain the RPC URL resolved from the environment
\* is the explicit per-chain override if set, else the URL built from the
\* provider key if set, else the public fallback; every supported chain
\* resolves to some URL.
C30_RpcUrlPerChainPriority ==
    rpc_config.some =>
        \A c \in Chains :
            /\ c \in DOMAIN rpc_config.urls
            /\ rpc_config.urls[c] = PerChainResolution(rpc_env, c)

\* C31: the simulator returns a result with success = false exactly when the
\* simulated call reverted, and a preflight that could not be issued is
\* reported as an error, never as a result.
C31_RevertResultOnlyForRevert ==
    \A r \in sim_log :
        /\ (r.result.ok /\ ~r.result.success) <=> r.rpc = "execution reverted"
        /\ r.rpc \in {"invalid url", "error sending request"} => ~r.result.ok

\* C32: the drive loop never holds the bridge lock across a sleep.
C32_LoopSleepsWithoutBridgeLock ==
    loop_pc = "sleep" => bridge_lock # LoopTask

\* While the loop runs, a task that asks for the bridge gets it in the end.
WaitingTaskAcquires ==
    \A t \in OtherTasks : (tasks[t] = "waiting") ~> (tasks[t] = "holding")

\* C33: overlapping execute_swap calls on one shared state are serialized:
\* whenever no call is inside the portfolio, the holdings and the trade log
\* are those of the calls made one after the other in the order they took the
\* lock, so that no call succeeds against a balance another call has spent.
C33_SwapsSerialized ==
    (\A c \in SwapSlots : swaps[c].pc \in {"idle", "lock", "done"}) =>
        LET sequential == SwapsInOrder([holdings |-> paper_start, trades |-> <<>>], paper_order)
        IN  /\ paper_holdings = sequential.holdings
            /\ paper_trades = sequential.trades

\* Two calls spending the same token have both returned; the balance covered
\* each of them but not both, and one of them was refused.
C33_Witness ==
    /\ \A c \in SwapSlots : swaps[c].pc = "done"
    /\ swaps["s1"].args.input_token = swaps["s2"].args.input_token
    /\ \A c \in SwapSlots :
          /\ swaps[c].args.input_amount >= 1
          /\ swaps[c].args.input_amount <= Holding(paper_start, swaps[c].args.input_token)
    /\ \E c \in SwapSlots : ~swaps[c].ok
    /\ \E c \in SwapSlots : swaps[c].ok

\* C34: the Audit guard's request hook returns Allow for every call and its
\* completion hook returns normally, whether or not the log write succeeded:
\* a failed audit write never blocks or fails a dispatch.
C34_AuditNeverBlocks ==
    [][\A d \in Slots :
          /\ (AtRequest(d, "Audit") /\ calls'[d] # calls[d]) =>
                /\ calls'[d].decs[Len(calls'[d].decs)] = Allow("Audit")
                /\ calls'[d].stage # "blocked"
          /\ (AtComplete(d, "Audit") /\ calls'[d] # calls[d]) =>
                /\ calls'[d].comps[Len(calls'[d].comps)] = "Audit"
                /\ calls'[d].stage \in {"complete", "done"}
                /\ calls'[d].result = calls[d].result]_vars

\* A dispatch ran to its end through the Audit guard although no audit entry
\* could be written.
C34_Witness ==
    /\ audit_log = <<>>
    /\ \E d \in Slots :
          /\ calls[d].stage = "done"
          /\ HasDecision(d, "Audit")
          /\ \E i \in 1..Len(calls[d].comps) : calls[d].comps[i] = "Audit"

\* The step is the completion hook of the spend limit guard for a prepare_swap
\* of the swap tool that succeeded and whose value v the guard can estimate.
SpendRecordedBy(d) ==
    /\ AtComplete(d, "SpendLimit")
    /\ calls'[d] # calls[d]
    /\ calls[d].ctx.tool_name = TOOL_ODOS_SWAP
    /\ calls[d].ctx.args.action = "prepare_swap"
    /\ calls[d].result = "ok"
    /\ estimate_trade_value(calls[d].ctx.args).some
    /\ HasDecision(d, "SpendLimit")
    /\ DecisionOf(d, "SpendLimit").allow

\* The statement of C35 as written: every change of the recorded daily total
\* is made by such a completion hook and adds the estimated value to it.
C35_TotalChangesOnlyAtCompletion ==
    [][daily'.total # daily.total =>
          \E d \in Slots :
              /\ SpendRecordedBy(d)
              /\ daily'.total = daily.total + estimate_trade_value(calls[d].ctx.args).v]_vars

\* C35: the recorded daily spending changes only (a) in the request hook of a
\* prepare_swap that reaches the daily check after the UTC date has changed,
\* which resets it to total 0 on the new date, or (b) in the completion hook of
\* a prepare_swap of the swap tool that succeeded and whose value could be
\* estimated, which adds exactly the value the request hook checked to the
\* total of the current date (0 if the date has changed); blocked requests on
\* the same date, failed completions, quotes and other tools never change it.
C35_TotalChangesOnlyAtCompletionOrNewDay ==
    [][daily' # daily =>
          \E d \in Slots :
              \/ /\ AtRequest(d, "SpendLimit")
                 /\ calls'[d] # calls[d]
                 /\ ReachesDailyCheck(MaxPerTrade, calls[d].ctx)
                 /\ daily.date # today
                 /\ daily' = NewDailySpending(today)
              \/ /\ SpendRecordedBy(d)
                 /\ daily'.date = today
                 /\ daily'.total = (IF daily.date = today THEN daily.total ELSE 0)
                                       + estimate_trade_value(calls[d].ctx.args).v]_vars

\* A successful prepare_swap was recorded on the day after earlier spending:
\* the total is the value of that one trade.
C35_Witness ==
    /\ today > 0
    /\ daily.date = today
    /\ daily.trades # <<>>
    /\ calls[1].stage = "done"
    /\ calls[1].result = "ok"
    /\ calls[1].ctx.tool_name = TOOL_ODOS_SWAP
    /\ calls[1].ctx.args.action = "prepare_swap"
    /\ estimate_trade_value(calls[1].ctx.args).some
    /\ daily.total = estimate_trade_value(calls[1].ctx.args).v

\* C36: the three swap guards recognise the same tool: in every dispatch of a
\* prepare_swap that the spend limit guard subjects to its limits, the slippage
\* guard has made the slippage check (it blocks a slippage above the maximum)
\* and the cooldown guard has made the cooldown check (the call is one its
\* window applies to).
C36_GuardsRecogniseSameTool ==
    \A d \in Slots : \A i \in 1..Len(calls[d].decs) :
        SpendLimitApplies(calls[d].ctx) =>
            LET args == calls[d].ctx.args
                slippage == IF args.slippage_percent.some THEN args.slippage_percent.v
                            ELSE DefaultSlippageTenths
            IN  /\ (calls[d].decs[i].guard = "SlippageGuard" /\ slippage > MaxSlippageTenths)
                       => ~calls[d].decs[i].allow
                /\ calls[d].decs[i].guard = "Cooldown" => CooldownApplies(calls[d].ctx)

\* Dispatch d is a prepare_swap the cooldown guard looked at and allowed, and
\* its body has completed successfully.
AllowedSwapCompleted(d) ==
    /\ CooldownApplies(calls[d].ctx)
    /\ HasDecision(d, "Cooldown")
    /\ DecisionOf(d, "Cooldown").allow
    /\ calls[d].result = "ok"
    /\ calls[d].stage \in {"complete", "done"}

\* C37: with overlapping dispatches the cooldown guard lets at most one
\* prepare_swap body run per cooldown window: no two prepare_swap calls are
\* both allowed by the guard and both completed successfully while less than
\* cooldown_duration has passed since the earlier of their requests.
C37_OneSwapPerCooldownWindow ==
    \A d1, d2 \in RaceSlots :
        (d1 # d2 /\ AllowedSwapCompleted(d1) /\ AllowedSwapCompleted(d2))
            => now >= CooldownSecs

\* The spending recorded for the current UTC date.
TotalOfToday(spending, date) == IF spending.date = date THEN spending.total ELSE 0

\* C38: a dispatch blocked by a guard leaves the stateful guards as they were:
\* a blocked dispatch has run request hooks only (no body, no completion hook),
\* and no request hook, of any guard and whatever it decides, changes the daily
\* spend total of the current UTC date or the cooldown's last-trade instant.
C38_BlockedDispatchLeavesGuardState ==
    /\ [](\A d \in Slots :
             calls[d].stage = "blocked" => calls[d].result = "none" /\ calls[d].comps = <<>>)
    /\ [][\A d \in Slots :
             (calls[d].stage = "request" /\ calls'[d] # calls[d])
                => /\ TotalOfToday(daily', today') = TotalOfToday(daily, today)
                   /\ last_trade' = last_trade]_vars

\* A prepare_swap has been blocked by the daily limit on the day after the
\* recorded one while spending of the current date is on record.
C38_Witness ==
    /\ calls[1].stage = "blocked"
    /\ HasDecision(1, "SpendLimit")
    /\ DecisionOf(1, "SpendLimit").why = "daily"
    /\ daily.date = today
    /\ daily.total > 0

\* C39: with require_file set, a runtime is built only with a policy that was
\* read and parsed from policy.json: when the file is missing, unreadable or
\* unparsable, build_runtime fails and no pipeline is installed.
C39_RequiredPolicyFileMustLoad ==
    LET file == agent_dir.policy_json
    IN  (runner.config.policy.require_file /\ runner.status = "built")
            => file.exists /\ file.readable /\ file.parses

\* C40: once the runner and the harness have both loaded the same readable,
\* well-formed policy.json, the allow/deny decision the harness reports for a
\* tool in the snapshot (and counts violations by) is the decision the Policy
\* interceptor makes for that tool, tools without a rule included.
C40_SnapshotDecisionIsInterceptorDecision ==
    LET file == agent_dir.policy_json
    IN  (/\ file.exists /\ file.readable /\ file.parses
         /\ runner.status = "built"
         /\ harness_policy.loaded)
        => \A tool \in SnapshotToolNames :
               harness_decision_for_tool(harness_policy.config, tool).allowed
                   = decision_for_tool(policy, tool).allowed

====
